---- MODULE Spec2Model ----
(***************************************************************************)
(* Model of the path-tracing canvas: the frame loop, its input handlers    *)
(* and the two-texture running-mean accumulation of ShaderCanvas.tsx, and  *)
(* the per-pixel sampler of the fragment shader.                           *)
(*                                                                         *)
(* Numbers.  Camera positions are fixed-point thousandths (0.1 = 100).     *)
(* Rotation angles are counted in half turns, so that every quaternion the *)
(* handlers build has integer components and quat.multiply is exact.       *)
(* Accumulated radiance of one pixel is an exact fraction <<num, den>>.    *)
(***************************************************************************)
EXTENDS Integers, Sequences, FiniteSets, TLC

\* ------------------------------------------------------------ bounds
MaxFrame == 3
MaxSample == 2
MaxCoord == 100
MaxKeysHeld == 2
MaxDraws == 3
MaxRoot == 64

\* ------------------------------------------------------------ constants
RenderScaleTenths == 2
MoveSpeedMilli == 100
QuatUnit == 10000

\* ------------------------------------------------------------ input sets
SampleVals == 1..MaxSample
KeyNames == {"W", "s", "e"}
MouseMoves == {<<0, 0>>, <<1, 1>>}
WindowConfigs == {<<<<300, 150>>, 0>>, <<<<7, 150>>, 3>>}
DefaultCanvas == <<300, 150>>
Pixels == {0, 1}
TimesMs == {0, 16, 1000}
FrameIndices == {0, 1}
Garbage == {<<0, 0>>, <<4660, 22136>>}
Runs == {"A", "B"}

VARIABLES
  camPos,          \* camPos.current, thousandths
  camRot,          \* camRot.current, <<x, y, z, w>>
  frameIdx,        \* frameIdx.current
  keysPressed,     \* keysPressed.current
  togglePathTrace, \* togglePathTrace.current
  canvasSize,      \* <<canvas.width, canvas.height>>
  clientSize,      \* <<canvas.clientWidth, canvas.clientHeight>>
  dprHalves,       \* window.devicePixelRatio, in halves (0 = unset)
  accTex,          \* accTex1, accTex2: [w, h, val]
  fbo,             \* fbo1, fbo2: [live, att]
  prevCamPos,      \* prevCamPos of the effect closure
  prevCamRot,      \* prevCamRot of the effect closure
  accDraw,         \* the last accumulation draw call (pass 1)
  tmDraw,          \* the last tonemap draw call (pass 2)
  hist,            \* per texture: samples folded into it since the last reset
  dirty,           \* a handler asked for a reset since the last pass
  inv,             \* per shader invocation: gl_FragCoord and the uniforms
  randomSeed,      \* per shader invocation: the global randomSeed, 32 bits
  seeded,          \* per shader invocation: initRandomSeed() has run
  seed0,           \* per shader invocation: randomSeed as initRandomSeed left it
  drawn,           \* per shader invocation: the randInt() results so far
  gen,             \* one generator on its own: state, steps, last randInt()
  geo,             \* one intersection query: ray, bounds, primitive, HitInfo
  path,            \* one tracePath() or rayCast() call: locals and counters
  cam,             \* two runs of main() in ray-cast mode on one pixel
  orient,          \* camRot.current in ten-thousandths, and the drags so far
  streams,         \* two generators whose seeds agree modulo 2^15
  life,            \* the effect's animation-frame requests and its cleanup
  prov             \* per texture: the settings of the samples its mean weighs

renderVars == <<camPos, camRot, frameIdx, keysPressed, togglePathTrace,
                canvasSize, clientSize, dprHalves, accTex, fbo,
                prevCamPos, prevCamRot, accDraw, tmDraw, hist, dirty>>

samplerVars == <<inv, randomSeed, seeded, seed0, drawn>>

pureVars == <<gen, geo, path>>

extraVars == <<cam, orient, streams, life, prov>>

vars == <<renderVars, samplerVars, pureVars, extraVars>>

\* ------------------------------------------------------------ arithmetic
Abs(x) == IF x < 0 THEN -x ELSE x

Max(a, b) == IF a >= b THEN a ELSE b

RECURSIVE GCD(_, _)
GCD(a, b) == IF b = 0 THEN a ELSE GCD(b, a % b)

\* A fraction in lowest terms with a positive denominator.
Reduce(n, d) ==
  LET g == GCD(Abs(n), d)
  IN  IF g = 0 THEN <<0, 1>> ELSE <<n \div g, d \div g>>

Zero == <<0, 1>>

FromInt(s) == <<s, 1>>

\* Mutant: the previous mean weighted by iFrameIndex + 1 (index off by one).
RunningMeanOffByOne(prev, n, s) ==
  Reduce(prev[1] * (n + 1) + s * prev[2], prev[2] * (n + 2))

\* Mutant: an exponential average in place of the running mean.
RunningMeanHalf(prev, n, s) ==
  Reduce(prev[1] + s * prev[2], prev[2] * 2)

\* main: newAverage = (prevSample * float(iFrameIndex) + currSample)
\*                    / (float(iFrameIndex) + 1.0)
RunningMean(prev, n, s) ==
  Reduce(prev[1] * n + s * prev[2], prev[2] * (n + 1))

\* ------------------------------------------------------------ sampler
\* A GLSL int is 32 bits: <<hi, lo>>, its two 16-bit halves.
Half == 256 * 256

\* a * b mod 2^16 for 0 <= a, b < 2^16, by bytes
MulMod16(a, b) ==
  LET a0 == a % 256
      a1 == a \div 256
      b0 == b % 256
      b1 == b \div 256
  IN  (a0 * b0 + ((a1 * b0 + a0 * b1) % 256) * 256) % Half

\* a * b for 0 <= a, b < 2^16, as <<hi, lo>>
Mul16(a, b) ==
  LET a0 == a % 256
      a1 == a \div 256
      b0 == b % 256
      b1 == b \div 256
      t0 == a0 * b0
      t1 == a1 * b0 + a0 * b1
      t2 == a1 * b1
      low == t0 + (t1 % 256) * 256
  IN  <<(t2 + t1 \div 256 + low \div Half) % Half, low % Half>>

\* int * int, wrapping
Mul32(x, y) ==
  LET ll == Mul16(x[2], y[2])
      cross == (MulMod16(x[1], y[2]) + MulMod16(x[2], y[1])) % Half
  IN  <<(ll[1] + cross) % Half, ll[2]>>

\* int + int, wrapping
Add32(x, y) ==
  LET low == x[2] + y[2]
  IN  <<(x[1] + y[1] + low \div Half) % Half, low % Half>>

\* the int with value v, -2^31 <= v < 2^31
ToInt32(v) == <<(v \div Half) % Half, v % Half>>

\* int(f) of a non-negative float given as a fraction num / den: truncation
FloatToInt(num, den) == ToInt32(num \div den)

\* Mutant: the seed also mixes in iFrameIndex.
initRandomSeedWithFrame(u) ==
  Add32(Add32(Add32(Mul32(FloatToInt(u.x2, 2), ToInt32(1973)),
                    Mul32(FloatToInt(u.y2, 2), ToInt32(9277))),
              FloatToInt(u.tMs * 26699, 1000)),
        ToInt32(u.frameIndex * 7919))

\* initRandomSeed(): randomSeed = int(gl_FragCoord.x) * 1973
\*   + int(gl_FragCoord.y) * 9277 + int(iTime * 26699.0)
\* u.x2, u.y2: twice gl_FragCoord (pixel centres are at halves); u.tMs: iTime
\* in milliseconds.
initRandomSeed(u) ==
  Add32(Add32(Mul32(FloatToInt(u.x2, 2), ToInt32(1973)),
              Mul32(FloatToInt(u.y2, 2), ToInt32(9277))),
        FloatToInt(u.tMs * 26699, 1000))

\* Mutant: the multiplier of the 16-bit generator of the same family.
cycleRandomSeedShort(seed) ==
  Add32(Mul32(seed, <<0, 26125>>), <<15470, 62303>>)

\* cycleRandomSeed(): randomSeed = randomSeed * 1664525 + 1013904223
cycleRandomSeed(seed) ==
  Add32(Mul32(seed, <<25, 26125>>), <<15470, 62303>>)

maxSignedShort == 32767

\* Mutant: the remainder modulo 2^16.
randIntOfWide(seed) ==
  LET masked == (seed[1] % 32768) * Half + seed[2]
  IN  masked % (2 * (maxSignedShort + 1))

\* randInt(), after cycleRandomSeed():
\* (randomSeed & 0x7FFFFFFF) % (maxSignedShort + 1)
randIntOf(seed) ==
  LET masked == (seed[1] % 32768) * Half + seed[2]
  IN  masked % (maxSignedShort + 1)

\* randFloat(): float(randInt()) / float(maxSignedShort), as a fraction
randFloatOf(r) == <<r, maxSignedShort>>

\* ------------------------------------------------------------ shader numbers
\* F(x) with x evaluated once
With(x, F(_)) == CHOOSE r \in {F(v) : v \in {x}} : TRUE

\* A float of the shader, exactly: <<T, a, b, c, d>> stands for
\* (T * 10^20 + a + b * 10^-6 + c * 10^-12) / d with d > 0, which holds
\* the shader's constants 1e20, 1e-6, 1e-5 and 0.001 next to the scene's
\* coordinates without leaving 32 bits.  Rounding is not modelled.  A result
\* outside this form (an irrational root, a higher power of 10^-6) has no
\* representation, and evaluating it stops the check.
Unrepresentable == CHOOSE x \in {} : TRUE

Sgn(n) == IF n > 0 THEN 1 ELSE IF n < 0 THEN -1 ELSE 0

NumNorm(x) ==
  With(x, LAMBDA v :
    With(GCD(GCD(GCD(Abs(v[1]), Abs(v[2])), GCD(Abs(v[3]), Abs(v[4]))),
             v[5]),
         LAMBDA g : <<v[1] \div g, v[2] \div g, v[3] \div g, v[4] \div g,
                      v[5] \div g>>))

\* the rational n / d
Rat(n, d) == NumNorm(<<0, n, 0, 0, d>>)

\* n * 10^-6 and n * 10^20
Micro(n) == <<0, 0, n, 0, 1>>

Huge(n) == <<n, 0, 0, 0, 1>>

NumAdd(x, y) ==
  With(x, LAMBDA u : With(y, LAMBDA v :
    With(v[5] \div GCD(u[5], v[5]), LAMBDA p :
      With(u[5] \div GCD(u[5], v[5]), LAMBDA q :
        NumNorm(<<u[1] * p + v[1] * q, u[2] * p + v[2] * q,
                  u[3] * p + v[3] * q, u[4] * p + v[4] * q, u[5] * p>>)))))

NumNeg(x) == With(x, LAMBDA v : <<-v[1], -v[2], -v[3], -v[4], v[5]>>)

NumSub(x, y) == NumAdd(x, NumNeg(y))

NumMul(x, y) ==
  With(x, LAMBDA u : With(y, LAMBDA v :
    IF \/ u[1] # 0 /\ (v[1] # 0 \/ v[3] # 0 \/ v[4] # 0)
       \/ v[1] # 0 /\ (u[3] # 0 \/ u[4] # 0)
       \/ u[3] * v[4] + u[4] * v[3] # 0
       \/ u[4] * v[4] # 0
      THEN Unrepresentable
      ELSE NumNorm(<<u[1] * v[2] + u[2] * v[1],
                     u[2] * v[2],
                     u[2] * v[3] + u[3] * v[2],
                     u[2] * v[4] + u[3] * v[3] + u[4] * v[2],
                     u[5] * v[5]>>)))

\* x / y for a rational y # 0, or for y a multiple of 10^-6
NumDiv(x, y) ==
  With(x, LAMBDA u : With(y, LAMBDA v :
    IF v[1] = 0 /\ v[3] = 0 /\ v[4] = 0 /\ v[2] # 0
      THEN NumMul(u, <<0, Sgn(v[2]) * v[5], 0, 0, Abs(v[2])>>)
    ELSE IF v[1] = 0 /\ v[2] = 0 /\ v[4] = 0 /\ v[3] # 0 /\ u[1] = 0
      THEN NumMul(<<0, u[2] * 1000000 + u[3], u[4], 0, u[5]>>,
                  <<0, Sgn(v[3]) * v[5], 0, 0, Abs(v[3])>>)
    ELSE Unrepresentable))

\* The sign of x: that of its leading part, as long as the smaller parts
\* cannot outweigh it.  With 32-bit numerators the 10^20 part outweighs all
\* others and the 10^-12 part is below 1/2; the 10^-6 part stays below half
\* of the rational part, and the 10^-12 part below the 10^-6 part, by test.
NumSign(x) ==
  With(x, LAMBDA v :
    IF v[1] # 0 THEN Sgn(v[1])
    ELSE IF v[2] # 0
      THEN IF Abs(v[3]) \div 500000 < Abs(v[2])
             THEN Sgn(v[2]) ELSE Unrepresentable
    ELSE IF v[3] # 0
      THEN IF Abs(v[4]) \div 1000000 < Abs(v[3])
             THEN Sgn(v[3]) ELSE Unrepresentable
    ELSE Sgn(v[4]))

NumLt(x, y) == NumSign(NumSub(x, y)) < 0

NumLe(x, y) == NumSign(NumSub(x, y)) <= 0

abs(x) == With(x, LAMBDA v : IF NumSign(v) < 0 THEN NumNeg(v) ELSE v)

max(x, y) ==
  With(x, LAMBDA u : With(y, LAMBDA v : IF NumLt(u, v) THEN v ELSE u))

\* the root of a perfect square below MaxRoot^2
RootInt(n) ==
  With(n, LAMBDA m :
    IF \E r \in 0 .. MaxRoot : r * r = m
      THEN CHOOSE r \in 0 .. MaxRoot : r * r = m
      ELSE Unrepresentable)

\* sqrt(x) of a rational x >= 0 that is the square of a rational
sqrt(x) ==
  With(x, LAMBDA v :
    IF v[1] # 0 \/ v[3] # 0 \/ v[4] # 0 \/ v[2] < 0
      THEN Unrepresentable
      ELSE <<0, RootInt(v[2]), 0, 0, RootInt(v[5])>>)

Rational(x) == With(x, LAMBDA v : v[1] = 0 /\ v[3] = 0 /\ v[4] = 0)

IsSquare(x) ==
  With(x, LAMBDA v :
    /\ v[1] = 0 /\ v[3] = 0 /\ v[4] = 0 /\ v[2] >= 0
    /\ \E r \in 0 .. MaxRoot : r * r = v[2]
    /\ \E r \in 0 .. MaxRoot : r * r = v[5])

\* vec3
vec3(x) == With(x, LAMBDA v : <<v, v, v>>)

VecOf(x, y, z, d) == <<Rat(x, d), Rat(y, d), Rat(z, d)>>

dot(a, b) ==
  With(a, LAMBDA u : With(b, LAMBDA v :
    NumAdd(NumAdd(NumMul(u[1], v[1]), NumMul(u[2], v[2])),
           NumMul(u[3], v[3]))))

plus(a, b) ==
  With(a, LAMBDA u : With(b, LAMBDA v :
    <<NumAdd(u[1], v[1]), NumAdd(u[2], v[2]), NumAdd(u[3], v[3])>>))

minus(a, b) ==
  With(a, LAMBDA u : With(b, LAMBDA v :
    <<NumSub(u[1], v[1]), NumSub(u[2], v[2]), NumSub(u[3], v[3])>>))

neg(a) == With(a, LAMBDA v : <<NumNeg(v[1]), NumNeg(v[2]), NumNeg(v[3])>>)

times(s, a) ==
  With(s, LAMBDA k : With(a, LAMBDA v :
    <<NumMul(k, v[1]), NumMul(k, v[2]), NumMul(k, v[3])>>))

mulv(a, b) ==
  With(a, LAMBDA u : With(b, LAMBDA v :
    <<NumMul(u[1], v[1]), NumMul(u[2], v[2]), NumMul(u[3], v[3])>>))

\* length(v) < x for x >= 0, without the root
LengthLt(a, x) ==
  With(a, LAMBDA v : With(x, LAMBDA k : NumLt(dot(v, v), NumMul(k, k))))

\* length(v) > 0
LengthPositive(a) == With(a, LAMBDA v : \E i \in 1 .. 3 : NumSign(v[i]) # 0)

\* normalize(v): along an axis the sign of the one component, else v over
\* its rational length
normalize(a) ==
  With(a, LAMBDA v :
    With({i \in 1 .. 3 : NumSign(v[i]) # 0}, LAMBDA nz :
      IF Cardinality(nz) = 1
        THEN <<Rat(NumSign(v[1]), 1), Rat(NumSign(v[2]), 1),
               Rat(NumSign(v[3]), 1)>>
      ELSE IF nz = {} THEN Unrepresentable
      ELSE With(sqrt(dot(v, v)), LAMBDA len :
             <<NumDiv(v[1], len), NumDiv(v[2], len), NumDiv(v[3], len)>>)))

\* ------------------------------------------------------------ intersections
TMIN == Micro(1)

TMAX == Huge(1)

NewRay(origin, direction) == [origin |-> origin, direction |-> direction]

NewPaper(color) ==
  [emissive |-> vec3(Rat(0, 1)), diffuse |-> color,
   specular |-> vec3(Rat(0, 1)), glossiness |-> Rat(1, 1)]

NewLight(intensity) ==
  [emissive |-> intensity, diffuse |-> vec3(Rat(0, 1)),
   specular |-> vec3(Rat(0, 1)), glossiness |-> Rat(1, 1)]

NewOrangePlastic ==
  [emissive |-> vec3(Rat(0, 1)), diffuse |-> VecOf(2, 1, 0, 2),
   specular |-> vec3(Rat(1, 2)), glossiness |-> Rat(50, 1)]

NewMirror ==
  [emissive |-> vec3(Rat(0, 1)), diffuse |-> vec3(Rat(0, 1)),
   specular |-> vec3(Rat(1, 1)), glossiness |-> Rat(1000, 1)]

getEmptyHit ==
  [hit |-> FALSE, t |-> Rat(0, 1), position |-> vec3(Rat(0, 1)),
   normal |-> vec3(Rat(0, 1)),
   material |-> [emissive |-> vec3(Rat(0, 1)), diffuse |-> vec3(Rat(0, 1)),
                 specular |-> vec3(Rat(0, 1)), glossiness |-> Rat(0, 1)]]

\* D = b * b - 4.0 * a * c
Discriminant(ray, sphere) ==
  With(minus(ray.origin, sphere.position), LAMBDA to_sphere :
    With(dot(ray.direction, ray.direction), LAMBDA a :
      With(NumMul(Rat(2, 1), dot(ray.direction, to_sphere)), LAMBDA b :
        With(NumSub(dot(to_sphere, to_sphere),
                    NumMul(sphere.radius, sphere.radius)), LAMBDA c :
          NumSub(NumMul(b, b), NumMul(Rat(4, 1), NumMul(a, c)))))))

\* the roots (-b -+ sqrt(D)) / (2a) after sortT, for D > 0
SphereRoots(ray, sphere) ==
  With(dot(ray.direction, ray.direction), LAMBDA a :
    With(NumMul(Rat(2, 1),
                dot(ray.direction, minus(ray.origin, sphere.position))),
         LAMBDA b :
      With(sqrt(Discriminant(ray, sphere)), LAMBDA rootD :
        With(NumDiv(NumSub(NumNeg(b), rootD), NumMul(Rat(2, 1), a)),
             LAMBDA u0 :
          With(NumDiv(NumAdd(NumNeg(b), rootD), NumMul(Rat(2, 1), a)),
               LAMBDA u1 :
            IF NumLt(u1, u0) THEN [t0 |-> u1, t1 |-> u0]
                             ELSE [t0 |-> u0, t1 |-> u1])))))

\* the t that intersectSphere settles on for the roots q
\* variant: the farther root is preferred
SphereTFar(q, tMin, tMax) ==
  IF NumLt(tMax, q.t1) THEN tMax ELSE q.t1

\* variant: the nearer root is used without clamping to the bounds
SphereTNearest(q, tMin, tMax) == q.t0

SphereT(q, tMin, tMax) ==
  IF NumLt(tMax, q.t1) THEN tMax
  ELSE IF NumLt(q.t0, tMin) THEN tMin
  ELSE q.t0

intersectSphere(ray, sphere, tMin, tMax) ==
  IF NumLe(Discriminant(ray, sphere), Rat(0, 1)) THEN getEmptyHit
  ELSE
    With(SphereRoots(ray, sphere), LAMBDA q :
      IF NumLt(tMax, q.t0) \/ NumLt(q.t1, tMin) THEN getEmptyHit
      ELSE
        With(SphereT(q, tMin, tMax), LAMBDA t :
          With(plus(ray.origin, times(t, ray.direction)),
               LAMBDA hitPosition :
            With(normalize(minus(hitPosition, sphere.position)),
                 LAMBDA outward :
              [hit |-> TRUE, t |-> t, position |-> hitPosition,
               normal |->
                 IF LengthLt(minus(ray.origin, sphere.position),
                             NumAdd(sphere.radius, Micro(1000)))
                   THEN neg(outward) ELSE outward,
               material |-> sphere.material]))))

\* variant: the ray parameter is not tested against the bounds
intersectPlaneNoBounds(ray, p, tMin, tMax) ==
  With(dot(ray.direction, p.normal), LAMBDA denom :
    IF NumLt(abs(denom), Micro(1)) THEN getEmptyHit
    ELSE
      With(NumDiv(NumNeg(NumAdd(dot(ray.origin, p.normal), p.d)), denom),
           LAMBDA t :
        [hit |-> TRUE, t |-> t,
         position |-> plus(ray.origin, times(t, ray.direction)),
         normal |-> normalize(p.normal), material |-> p.material]))

intersectPlane(ray, p, tMin, tMax) ==
  With(dot(ray.direction, p.normal), LAMBDA denom :
    IF NumLt(abs(denom), Micro(1)) THEN getEmptyHit
    ELSE
      With(NumDiv(NumNeg(NumAdd(dot(ray.origin, p.normal), p.d)), denom),
           LAMBDA t :
        IF NumLt(t, tMin) \/ NumLt(tMax, t) THEN getEmptyHit
        ELSE [hit |-> TRUE, t |-> t,
              position |-> plus(ray.origin, times(t, ray.direction)),
              normal |-> normalize(p.normal), material |-> p.material]))

sphereCount == 4

planeCount == 5

\* loadScene(): spheres[0..3] and planes[0..4], here indexed from 1
spheres ==
  <<[position |-> VecOf(-3, 1, -14, 2), radius |-> Rat(3, 2),
     material |-> NewOrangePlastic],
    [position |-> VecOf(3, 0, -10, 2), radius |-> Rat(1, 1),
     material |-> NewMirror],
    [position |-> VecOf(2, 2, -5, 1), radius |-> Rat(1, 2),
     material |-> NewLight(VecOf(6, 8, 7, 2))],
    [position |-> VecOf(-5, -1, -6, 2), radius |-> Rat(3, 20),
     material |-> NewLight(VecOf(10, 8, 6, 1))]>>

planes ==
  <<[normal |-> VecOf(0, 1, 0, 1), d |-> Rat(1, 1),
     material |-> NewPaper(vec3(Rat(4, 5)))],
    [normal |-> VecOf(1, 0, 0, 1), d |-> Rat(6, 1),
     material |-> NewPaper(VecOf(1, 0, 0, 1))],
    [normal |-> VecOf(-1, 0, 0, 1), d |-> Rat(6, 1),
     material |-> NewPaper(VecOf(0, 1, 0, 1))],
    [normal |-> VecOf(0, 0, 1, 1), d |-> Rat(10, 1),
     material |-> NewPaper(vec3(Rat(4, 5)))],
    [normal |-> VecOf(0, -1, 0, 1), d |-> Rat(5, 1),
     material |-> NewPaper(vec3(Rat(4, 5)))]>>

\* One pass of a loop of intersectScene: if (h.hit && h.t < best.t) best = h
\* variant: a later primitive of equal t replaces the earlier one
NearerOrEqual(best, h) ==
  With(best, LAMBDA b : With(h, LAMBDA x :
    IF x.hit /\ NumLe(x.t, b.t) THEN x ELSE b))

Nearer(best, h) ==
  With(best, LAMBDA b : With(h, LAMBDA x :
    IF x.hit /\ NumLt(x.t, b.t) THEN x ELSE b))

RECURSIVE SphereLoop(_, _, _)
SphereLoop(ray, i, best) ==
  IF i > sphereCount THEN best
  ELSE SphereLoop(ray, i + 1,
                  Nearer(best, intersectSphere(ray, spheres[i], TMIN, TMAX)))

RECURSIVE PlaneLoop(_, _, _)
PlaneLoop(ray, i, best) ==
  IF i > planeCount THEN best
  ELSE PlaneLoop(ray, i + 1,
                 Nearer(best, intersectPlane(ray, planes[i], TMIN, TMAX)))

intersectScene(ray) ==
  PlaneLoop(ray, 1, SphereLoop(ray, 1, [getEmptyHit EXCEPT !.t = Huge(1)]))

\* no query under study
NoQuery ==
  [op |-> "none", ray |-> NewRay(vec3(Rat(0, 1)), vec3(Rat(0, 1))),
   tMin |-> TMIN, tMax |-> TMAX, sphere |-> spheres[1],
   plane |-> planes[1], h |-> getEmptyHit]

\* no tracePath() or rayCast() call: result and throughput as tracePath
\* declares them, the counters at zero.  probability and geometricTerm are
\* the locals of the latest iteration, divided tells whether that iteration
\* reached throughput /= probability.
NoPath ==
  [pc |-> "idle", op |-> "none",
   probability |-> Rat(0, 1), geometricTerm |-> Rat(0, 1), divided |-> FALSE,
   ray |-> NewRay(vec3(Rat(0, 1)), vec3(Rat(0, 1))),
   cam |-> NewRay(vec3(Rat(0, 1)), vec3(Rat(0, 1))),
   i |-> 0, result |-> vec3(Rat(0, 1)), throughput |-> vec3(Rat(1, 1)),
   intersections |-> 0, draws |-> 0, exit |-> "none",
   light |-> [seen |-> FALSE, i |-> 0, intersections |-> 0, draws |-> 0,
              result |-> vec3(Rat(0, 1))]]

\* one run of main() not made yet
NoShade ==
  [xi |-> <<0, 0>>, done |-> FALSE,
   ray |-> NewRay(vec3(Rat(0, 1)), vec3(Rat(0, 1))),
   sample |-> vec3(Rat(0, 1)), intersections |-> 0]

\* no pixel under study
NoCam ==
  [res |-> <<1, 1>>, pixel |-> <<0, 0>>, pos |-> vec3(Rat(0, 1)),
   rot |-> <<Rat(0, 1), Rat(0, 1), Rat(0, 1), Rat(1, 1)>>,
   run |-> [r \in Runs |-> NoShade]]

\* the effect has run to line 400: one request pending, nothing deleted
\* (requests: the callback ids requestAnimationFrame holds; ranAfterCleanup,
\* usedDeleted: frame() has run, or drawn with a deleted object, since cleanup)
NoLife ==
  [requests |-> {1}, currFrame |-> 1, nextId |-> 2, runs |-> 0,
   cleaned |-> FALSE, ranAfterCleanup |-> FALSE, usedDeleted |-> FALSE]

\* no sample folded into either texture
NoProv == <<{}, {}>>

\* no pair of generators under study
NoStreams ==
  [a |-> <<0, 0>>, b |-> <<0, 0>>, steps |-> 0, limit |-> 0,
   outA |-> 0, outB |-> 0, first |-> 0]

\* camRot.current as quat.create() leaves it, in ten-thousandths; no drag yet
NoOrient == [q |-> <<0, 0, 0, QuatUnit>>, n |-> 0, updates |-> 0]

\* ------------------------------------------------------------ gl-matrix
\* quat.create(): the identity, <<x, y, z, w>>
QuatIdentity == <<0, 0, 0, 1>>

\* sin and cos of half of an angle of k half turns, k in -1..1
SinHalfTurn(k) == k

CosHalfTurn(k) == IF k = 0 THEN 1 ELSE 0

\* quat.setAxisAngle(out, axis, rad) for rad = k half turns
setAxisAngle(axis, k) ==
  <<SinHalfTurn(k) * axis[1], SinHalfTurn(k) * axis[2],
    SinHalfTurn(k) * axis[3], CosHalfTurn(k)>>

\* quat.multiply(out, a, b): the Hamilton product a * b
quatMultiply(a, b) ==
  <<a[1] * b[4] + a[4] * b[1] + a[2] * b[3] - a[3] * b[2],
    a[2] * b[4] + a[4] * b[2] + a[3] * b[1] - a[1] * b[3],
    a[3] * b[4] + a[4] * b[3] + a[1] * b[2] - a[2] * b[1],
    a[4] * b[4] - a[1] * b[1] - a[2] * b[2] - a[3] * b[3]>>

\* The integer square root of a perfect square (0 otherwise).
ISqrt(n) ==
  IF \E r \in 0..n : r * r = n THEN CHOOSE r \in 0..n : r * r = n ELSE 0

\* quat.normalize(out, a): a / |a| when |a| > 0, else a unchanged (all zero)
quatNormalize(q) ==
  LET len == q[1] * q[1] + q[2] * q[2] + q[3] * q[3] + q[4] * q[4]
      r == ISqrt(len)
  IN  IF len > 0 /\ r > 0
        THEN <<q[1] \div r, q[2] \div r, q[3] \div r, q[4] \div r>>
        ELSE q

Cross(a, b) ==
  <<a[2] * b[3] - a[3] * b[2],
    a[3] * b[1] - a[1] * b[3],
    a[1] * b[2] - a[2] * b[1]>>

\* vec3.transformQuat(out, v, q): v + 2w (q x v) + 2 q x (q x v)
transformQuat(v, q) ==
  LET qv == <<q[1], q[2], q[3]>>
      uv == Cross(qv, v)
      uuv == Cross(qv, uv)
  IN  <<v[1] + 2 * q[4] * uv[1] + 2 * uuv[1],
        v[2] + 2 * q[4] * uv[2] + 2 * uuv[2],
        v[3] + 2 * q[4] * uv[3] + 2 * uuv[3]>>

VecAdd(a, b) == <<a[1] + b[1], a[2] + b[2], a[3] + b[3]>>

VecSub(a, b) == <<a[1] - b[1], a[2] - b[2], a[3] - b[3]>>

VecScale(a, k) == <<a[1] * k, a[2] * k, a[3] * k>>

Len2(a) == a[1] * a[1] + a[2] * a[2] + a[3] * a[3]

\* vec3.normalize of an axis-aligned direction: v / |v|, and 0 for 0
vec3Normalize(v) ==
  LET r == ISqrt(Len2(v))
  IN  IF r > 0 THEN <<v[1] \div r, v[2] \div r, v[3] \div r>> ELSE v

\* vec3.normalize followed by vec3.scale(.., moveSpeed), in thousandths:
\* the length of moveDir is 0, 1 or sqrt(2) (forward and right are orthogonal).
NormalizeScale(v) ==
  LET l2 == Len2(v)
      k == IF l2 = 0 THEN 0
           ELSE IF l2 = 1 THEN MoveSpeedMilli
           ELSE (MoveSpeedMilli * 707) \div 1000
  IN  VecScale(v, k)

\* vec3.equals / quat.equals: equal within 1e-6 (relative); thousandths and
\* integer quaternion components differ by at least 1e-3 when they differ.
vecEquals(a, b) == a = b

worldRight == <<1, 0, 0>>

worldForward == <<0, 0, -1>>

\* ------------------------------------------------------------ handlers' helpers
\* e.key.toLowerCase()
toLowerCase(k) ==
  IF k = "W" THEN "w"
  ELSE IF k = "A" THEN "a"
  ELSE IF k = "S" THEN "s"
  ELSE IF k = "D" THEN "d"
  ELSE k

NoMove == [moved |-> FALSE, v |-> <<0, 0, 0>>]

\* GetDeltaMovement(keysPressed, rotation): undefined when no key is held
GetDeltaMovement(keys, rotation) ==
  IF keys # {}
    THEN LET localForward == vec3Normalize(transformQuat(worldForward, rotation))
             localRight == vec3Normalize(transformQuat(worldRight, rotation))
             m0 == <<0, 0, 0>>
             m1 == IF "w" \in keys THEN VecAdd(m0, localForward) ELSE m0
             m2 == IF "s" \in keys THEN VecSub(m1, localForward) ELSE m1
             m3 == IF "a" \in keys THEN VecSub(m2, localRight) ELSE m2
             m4 == IF "d" \in keys THEN VecAdd(m3, localRight) ELSE m3
         IN  [moved |-> TRUE, v |-> NormalizeScale(m4)]
    ELSE NoMove

\* getRenderSize(): floor(canvas size * renderScale)
getRenderSize(cs) ==
  <<(cs[1] * RenderScaleTenths) \div 10, (cs[2] * RenderScaleTenths) \div 10>>

\* ------------------------------------------------------------ GL resources
\* a framebuffer: is it a live object, and which of accTex1, accTex2 (0: none
\* of the current ones) is its colour attachment
NullFbo == [live |-> FALSE, att |-> 0]

\* a framebuffer after gl.deleteFramebuffer, its texture deleted too
DeletedFbo == [live |-> FALSE, att |-> 0]

\* Mutant: width and height passed to texImage2D in the wrong order.
createAccTextureSwapped(width, height) ==
  [w |-> height, h |-> width, val |-> Zero]

\* createAccTexture: a width x height RGBA16F texture with no data (zeros)
createAccTexture(width, height) == [w |-> width, h |-> height, val |-> Zero]

\* createFbo: a framebuffer with tex as colour attachment 0, or null when
\* checkFramebufferStatus is not FRAMEBUFFER_COMPLETE (glOk is the driver's
\* verdict; an attachment of zero width or height is never complete).
createFbo(i, tex, glOk) ==
  IF glOk /\ tex.w > 0 /\ tex.h > 0 THEN [live |-> TRUE, att |-> i] ELSE NullFbo

createTexFboPair(i, width, height, glOk) ==
  LET tex == createAccTexture(width, height)
  IN  [tex |-> tex, fbo |-> createFbo(i, tex, glOk)]

\* clearFbo: clears the colour attachment of a live framebuffer to zero
clearFbo(texs, f) ==
  IF f.live /\ f.att \in DOMAIN texs
    THEN [texs EXCEPT ![f.att].val = Zero]
    ELSE texs

\* resize, line 293: Math.max(1, window.devicePixelRatio || 1), in halves
EffectiveDpr(d) == Max(2, IF d = 0 THEN 2 ELSE d)

\* resize, lines 294-295: floor(canvas.clientWidth * dpr), likewise the height
DeviceSize(cs, d) ==
  <<(cs[1] * EffectiveDpr(d)) \div 2, (cs[2] * EffectiveDpr(d)) \div 2>>

\* Mutant: resize() without its frameIdx.current = 0.
resizeKeepsIndex(gl1, gl2) ==
  LET size == DeviceSize(clientSize, dprHalves)
  IN  IF canvasSize[1] # size[1] \/ canvasSize[2] # size[2]
        THEN LET rs == getRenderSize(size)
                 pair1 == createTexFboPair(1, rs[1], rs[2], gl1)
                 pair2 == createTexFboPair(2, rs[1], rs[2], gl2)
                 texs == <<pair1.tex, pair2.tex>>
             IN  IF ~pair1.fbo.live \/ ~pair2.fbo.live
                   THEN [canvas |-> size, tex |-> texs,
                         fbo |-> <<DeletedFbo, DeletedFbo>>,
                         frameIdx |-> frameIdx,
                         bound |-> pair2.fbo,
                         changed |-> TRUE, failed |-> TRUE]
                   ELSE [canvas |-> size,
                         tex |-> clearFbo(clearFbo(texs, pair1.fbo), pair2.fbo),
                         fbo |-> <<pair1.fbo, pair2.fbo>>,
                         frameIdx |-> frameIdx,
                         bound |-> pair2.fbo,
                         changed |-> TRUE, failed |-> FALSE]
        ELSE [canvas |-> canvasSize, tex |-> accTex, fbo |-> fbo,
              frameIdx |-> frameIdx, bound |-> NullFbo,
              changed |-> FALSE, failed |-> FALSE]

\* resize(): the canvas, textures, framebuffers and frameIdx it leaves, with
\* `changed` telling whether the canvas size differed, `failed` whether it
\* returned at "failed to resize fbos", and `bound` the framebuffer it leaves
\* bound (NullFbo: the binding frame's last pass left, the screen).
\* gl1, gl2: the driver's verdicts on the completeness of the new framebuffers.
resize(gl1, gl2) ==
  LET size == DeviceSize(clientSize, dprHalves)
  IN  IF canvasSize[1] # size[1] \/ canvasSize[2] # size[2]
        THEN LET rs == getRenderSize(size)
                 pair1 == createTexFboPair(1, rs[1], rs[2], gl1)
                 pair2 == createTexFboPair(2, rs[1], rs[2], gl2)
                 texs == <<pair1.tex, pair2.tex>>
             IN  IF ~pair1.fbo.live \/ ~pair2.fbo.live
                   THEN [canvas |-> size, tex |-> texs,
                         fbo |-> <<DeletedFbo, DeletedFbo>>,
                         frameIdx |-> frameIdx,
                         bound |-> pair2.fbo,
                         changed |-> TRUE, failed |-> TRUE]
                   ELSE [canvas |-> size,
                         tex |-> clearFbo(clearFbo(texs, pair1.fbo), pair2.fbo),
                         fbo |-> <<pair1.fbo, pair2.fbo>>,
                         frameIdx |-> 0,
                         bound |-> pair2.fbo,
                         changed |-> TRUE, failed |-> FALSE]
        ELSE [canvas |-> canvasSize, tex |-> accTex, fbo |-> fbo,
              frameIdx |-> frameIdx, bound |-> NullFbo,
              changed |-> FALSE, failed |-> FALSE]

\* Mutants of the ping-pong selection: the two branches exchanged, and a
\* selection that ignores the parity.
WriteFboOfSwapped(n) == IF n % 2 = 0 THEN 1 ELSE 2

ReadTexOfSwapped(n) == IF n % 2 = 0 THEN 2 ELSE 1

WriteTexOfSwapped(n) == IF n % 2 = 0 THEN 1 ELSE 2

\* frame, lines 357-359: the ping-pong selection by the parity of frameIdx
WriteFboOf(n) == IF n % 2 = 0 THEN 2 ELSE 1

ReadTexOf(n) == IF n % 2 = 0 THEN 1 ELSE 2

WriteTexOf(n) == IF n % 2 = 0 THEN 2 ELSE 1

\* frame, lines 347-350: the camera transform differs from the remembered one
PoseChanged(pPos, pos, pRot, rot) == ~vecEquals(pPos, pos) \/ ~vecEquals(pRot, rot)

NoHist == [sum |-> 0, cnt |-> 0]

NoDraw ==
  [valid |-> FALSE, frameIndex |-> 0, readTex |-> 0, writeFbo |-> 0,
   target |-> 0, res |-> <<0, 0>>, texSizes |-> <<<<0, 0>>, <<0, 0>>>>,
   camPos |-> <<0, 0, 0>>, camRot |-> QuatIdentity, pathTrace |-> TRUE,
   sample |-> 0, prev |-> Zero, out |-> Zero,
   reset |-> FALSE, resized |-> FALSE, changed |-> FALSE, first |-> FALSE,
   readCnt |-> 0, folded |-> NoHist, cleared |-> FALSE,
   lastTarget |-> 0, lastRead |-> 0]

NoTonemap == [valid |-> FALSE, src |-> 0, val |-> Zero, size |-> <<0, 0>>]

\* ------------------------------------------------------------ initial state
RenderInit ==
  /\ camPos = <<0, 1000, 2000>>
  /\ camRot = QuatIdentity
  /\ frameIdx = 0
  /\ keysPressed = {}
  /\ togglePathTrace = TRUE
  /\ canvasSize = DefaultCanvas
  /\ \E c \in WindowConfigs : clientSize = c[1] /\ dprHalves = c[2]
  /\ LET rs == getRenderSize(DefaultCanvas)
         pair1 == createTexFboPair(1, rs[1], rs[2], TRUE)
         pair2 == createTexFboPair(2, rs[1], rs[2], TRUE)
     IN  /\ fbo = <<pair1.fbo, pair2.fbo>>
         /\ accTex = clearFbo(clearFbo(<<pair1.tex, pair2.tex>>, pair1.fbo),
                              pair2.fbo)
  /\ prevCamPos = <<0, 0, 0>>
  /\ prevCamRot = QuatIdentity
  /\ accDraw = NoDraw
  /\ tmDraw = NoTonemap
  /\ hist = <<NoHist, NoHist>>
  /\ dirty = FALSE

NoInvocation == [x2 |-> 1, y2 |-> 1, tMs |-> 0, frameIndex |-> 0]

\* no shader invocation is followed
SamplerIdle ==
  /\ inv = [r \in Runs |-> NoInvocation]
  /\ randomSeed = [r \in Runs |-> <<0, 0>>]
  /\ seeded = [r \in Runs |-> FALSE]
  /\ seed0 = [r \in Runs |-> <<0, 0>>]
  /\ drawn = [r \in Runs |-> <<>>]

\* No generator under study.
NoGen == [state |-> <<0, 0>>, prev |-> <<0, 0>>, steps |-> 0, out |-> 0]

PureIdle == gen = NoGen /\ geo = NoQuery /\ path = NoPath

CamIdle == cam = NoCam

OrientIdle == orient = NoOrient

StreamsIdle == streams = NoStreams

LifeIdle == life = NoLife

ProvIdle == prov = NoProv

ExtraIdle == CamIdle /\ OrientIdle /\ StreamsIdle /\ LifeIdle /\ ProvIdle

Init == RenderInit /\ SamplerIdle /\ PureIdle /\ ExtraIdle

\* ------------------------------------------------------------ handlers
\* handleMouseMove(e): e.buttons = buttons, <<e.movementX, e.movementY>> = mv
\* in half turns per mouseMoveSens
handleMouseMove(buttons, mv) ==
  /\ IF buttons # 1
       THEN UNCHANGED <<camRot, frameIdx, hist, dirty>>
       ELSE LET yaw == -mv[1]
                pitch == -mv[2]
                qYaw == setAxisAngle(<<0, 1, 0>>, yaw)
                qPitch == setAxisAngle(<<1, 0, 0>>, pitch)
                r1 == quatMultiply(qYaw, camRot)
                r2 == quatMultiply(r1, qPitch)
            IN  /\ camRot' = quatNormalize(r2)
                /\ frameIdx' = 0
                /\ hist' = <<NoHist, NoHist>>
                /\ dirty' = TRUE
  /\ UNCHANGED <<camPos, keysPressed, togglePathTrace, canvasSize, clientSize,
                 dprHalves, accTex, fbo, prevCamPos, prevCamRot, accDraw, tmDraw>>

handleKeyDown(key) ==
  /\ Cardinality(keysPressed \cup {toLowerCase(key)}) <= MaxKeysHeld
  /\ keysPressed' = keysPressed \cup {toLowerCase(key)}
  /\ UNCHANGED <<camPos, camRot, frameIdx, togglePathTrace, canvasSize,
                 clientSize, dprHalves, accTex, fbo, prevCamPos, prevCamRot,
                 accDraw, tmDraw, hist, dirty>>

handleKeyUp(key) ==
  /\ keysPressed' = keysPressed \ {toLowerCase(key)}
  /\ UNCHANGED <<camPos, camRot, frameIdx, togglePathTrace, canvasSize,
                 clientSize, dprHalves, accTex, fbo, prevCamPos, prevCamRot,
                 accDraw, tmDraw, hist, dirty>>

\* Mutant: the toggle without its frameIdx.current = 0.
onClickNoReset ==
  /\ togglePathTrace' = ~togglePathTrace
  /\ hist' = <<NoHist, NoHist>>
  /\ dirty' = TRUE
  /\ UNCHANGED <<camPos, camRot, frameIdx, keysPressed, canvasSize, clientSize,
                 dprHalves, accTex, fbo, prevCamPos, prevCamRot, accDraw, tmDraw>>

\* the button's onClick
onClick ==
  /\ togglePathTrace' = ~togglePathTrace
  /\ frameIdx' = 0
  /\ hist' = <<NoHist, NoHist>>
  /\ dirty' = TRUE
  /\ UNCHANGED <<camPos, camRot, keysPressed, canvasSize, clientSize,
                 dprHalves, accTex, fbo, prevCamPos, prevCamRot, accDraw, tmDraw>>

\* The window is resized or moved to a display of another pixel ratio: the
\* canvas' client size and devicePixelRatio change; frame's resize() reacts.
WindowResize(cs, d) ==
  /\ <<cs, d>> # <<clientSize, dprHalves>>
  /\ clientSize' = cs
  /\ dprHalves' = d
  /\ UNCHANGED <<camPos, camRot, frameIdx, keysPressed, togglePathTrace,
                 canvasSize, accTex, fbo, prevCamPos, prevCamRot, accDraw,
                 tmDraw, hist, dirty>>

AddSample(h, s) == [sum |-> h.sum + s, cnt |-> h.cnt + 1]

InRange(pos) ==
  /\ Abs(pos[1]) <= MaxCoord
  /\ Abs(pos[2] - 1000) <= MaxCoord
  /\ Abs(pos[3] - 2000) <= MaxCoord

\* frame(), pass 1 and pass 2 and the increment, once resize() has left rz and
\* the camera handling has left position pos1 and frame index idx2 (differs:
\* the transform was found changed).  s: the radiance the shader's tracePath /
\* rayCast returns for the pixel this tick.
framePasses(rz, moved, differs, pos1, idx2, s) ==
  LET renderSize == getRenderSize(rz.canvas)
      writeFbo == rz.fbo[WriteFboOf(idx2)]
      readTex == ReadTexOf(idx2)
      writeTex == WriteTexOf(idx2)
      \* gl.bindFramebuffer of a deleted framebuffer is an INVALID_OPERATION
      \* that leaves the binding as it was
      boundFbo == IF writeFbo.live THEN writeFbo ELSE rz.bound
      target == IF boundFbo.live THEN boundFbo.att ELSE 0
      prev == rz.tex[readTex].val
      newAverage == RunningMean(prev, idx2, s)
      tex1 == IF target = 0 THEN rz.tex
              ELSE [rz.tex EXCEPT ![target].val = newAverage]
      h0 == IF rz.changed \/ moved \/ differs THEN <<NoHist, NoHist>> ELSE hist
      h1 == IF target = 0 THEN h0
            ELSE [h0 EXCEPT ![target] = AddSample(h0[readTex], s)]
  IN  /\ idx2 + 1 <= MaxFrame
      /\ InRange(pos1)
      /\ canvasSize' = rz.canvas
      /\ accTex' = tex1
      /\ fbo' = rz.fbo
      /\ camPos' = pos1
      /\ prevCamPos' = IF differs THEN pos1 ELSE prevCamPos
      /\ prevCamRot' = IF differs THEN camRot ELSE prevCamRot
      /\ frameIdx' = idx2 + 1
      /\ hist' = h1
      /\ dirty' = FALSE
      /\ accDraw' =
           [valid |-> TRUE, frameIndex |-> idx2, readTex |-> readTex,
            writeFbo |-> WriteFboOf(idx2), target |-> target,
            res |-> renderSize,
            texSizes |-> <<<<rz.tex[1].w, rz.tex[1].h>>,
                           <<rz.tex[2].w, rz.tex[2].h>>>>,
            camPos |-> pos1, camRot |-> camRot, pathTrace |-> togglePathTrace,
            sample |-> s, prev |-> prev, out |-> newAverage,
            reset |-> dirty \/ rz.changed \/ moved \/ differs \/ ~accDraw.valid,
            resized |-> rz.changed,
            changed |-> accDraw.valid
                        /\ (pos1 # accDraw.camPos \/ camRot # accDraw.camRot
                            \/ togglePathTrace # accDraw.pathTrace),
            first |-> ~accDraw.valid,
            readCnt |-> h0[readTex].cnt,
            folded |-> AddSample(h0[readTex], s),
            cleared |-> rz.tex[1].val = Zero /\ rz.tex[2].val = Zero,
            lastTarget |-> accDraw.target, lastRead |-> accDraw.readTex]
      /\ tmDraw' = [valid |-> TRUE, src |-> writeTex, val |-> tex1[writeTex].val,
                    size |-> rz.canvas]
      /\ UNCHANGED <<camRot, keysPressed, togglePathTrace, clientSize, dprHalves>>

\* frame(): one animation-frame callback: resize(), the movement of lines
\* 339-344, the transform test of lines 346-354, then the two passes.
frame(gl1, gl2, s) ==
  \E rz \in {resize(gl1, gl2)} :
  \E deltaMove \in {GetDeltaMovement(keysPressed, camRot)} :
  \E pos1 \in {IF deltaMove.moved THEN VecAdd(camPos, deltaMove.v) ELSE camPos} :
  \E idx1 \in {IF deltaMove.moved THEN 0 ELSE rz.frameIdx} :
  \E differs \in {PoseChanged(prevCamPos, pos1, prevCamRot, camRot)} :
  \E idx2 \in {IF differs THEN 0 ELSE idx1} :
    framePasses(rz, deltaMove.moved, differs, pos1, idx2, s)

\* ------------------------------------------------------------ specification
\* The rendering backend hands out complete framebuffers (both verdicts TRUE).
Tick ==
  /\ \E s \in SampleVals : frame(TRUE, TRUE, s)
  /\ UNCHANGED <<samplerVars, pureVars, extraVars>>

MouseMove ==
  /\ \E b \in {0, 1} : \E mv \in MouseMoves : handleMouseMove(b, mv)
  /\ UNCHANGED <<samplerVars, pureVars, extraVars>>

KeyDown ==
  /\ \E k \in KeyNames : handleKeyDown(k)
  /\ UNCHANGED <<samplerVars, pureVars, extraVars>>

KeyUp ==
  /\ \E k \in KeyNames : handleKeyUp(k)
  /\ UNCHANGED <<samplerVars, pureVars, extraVars>>

Click ==
  /\ onClick
  /\ UNCHANGED <<samplerVars, pureVars, extraVars>>

Resized ==
  /\ \E c \in WindowConfigs : WindowResize(c[1], c[2])
  /\ UNCHANGED <<samplerVars, pureVars, extraVars>>

Next ==
  \/ Tick
  \/ MouseMove
  \/ KeyDown
  \/ KeyUp
  \/ Click
  \/ Resized

Spec == Init /\ [][Next]_vars

\* ------------------------------------------------------------ sampler runs
\* Two invocations of the fragment shader's main() with the same gl_FragCoord
\* and iTime; the other uniforms and the value the uninitialised global
\* randomSeed holds before initRandomSeed() are chosen freely for each.
SamplerInit ==
  /\ \E px \in Pixels : \E py \in Pixels : \E t \in TimesMs :
       \E fa \in FrameIndices : \E fb \in FrameIndices :
         inv = [r \in Runs |->
                  [x2 |-> 2 * px + 1, y2 |-> 2 * py + 1, tMs |-> t,
                   frameIndex |-> IF r = "A" THEN fa ELSE fb]]
  /\ randomSeed \in [Runs -> Garbage]
  /\ seeded = [r \in Runs |-> FALSE]
  /\ seed0 = [r \in Runs |-> <<0, 0>>]
  /\ drawn = [r \in Runs |-> <<>>]

\* main(): initRandomSeed()
Seed(r) ==
  /\ ~seeded[r]
  /\ randomSeed' = [randomSeed EXCEPT ![r] = initRandomSeed(inv[r])]
  /\ seed0' = [seed0 EXCEPT ![r] = initRandomSeed(inv[r])]
  /\ seeded' = [seeded EXCEPT ![r] = TRUE]
  /\ UNCHANGED <<inv, drawn>>

\* randInt(): cycleRandomSeed(), then the masked remainder
randInt(r) ==
  /\ seeded[r]
  /\ Len(drawn[r]) < MaxDraws
  /\ randomSeed' = [randomSeed EXCEPT ![r] = cycleRandomSeed(randomSeed[r])]
  /\ drawn' = [drawn EXCEPT
                 ![r] = Append(@, randIntOf(cycleRandomSeed(randomSeed[r])))]
  /\ UNCHANGED <<inv, seeded, seed0>>

SeedRun ==
  /\ \E r \in Runs : Seed(r)
  /\ UNCHANGED <<renderVars, pureVars, extraVars>>

DrawRun ==
  /\ \E r \in Runs : randInt(r)
  /\ UNCHANGED <<renderVars, pureVars, extraVars>>

SamplerNext ==
  \/ SeedRun
  \/ DrawRun

\* The shader runs on the canvas as constructed.
InitSampler == RenderInit /\ SamplerInit /\ PureIdle /\ ExtraIdle

SpecSampler == InitSampler /\ [][SamplerNext]_vars

\* ------------------------------------------------------------ generator
\* One generator started from an arbitrary 32-bit state <<hi, lo>>: states
\* of either sign, the extremes, and the low words from which the next
\* randInt() is 0 and 32767.
HiWords == {0, 1, 32767, 32768, 46216, 65535}

LoWords == (0 .. 63) \cup {14112, 32767, 32768, 46880, 65535}

GenInit ==
  \E hi \in HiWords : \E lo \in LoWords :
    gen = [state |-> <<hi, lo>>, prev |-> <<hi, lo>>, steps |-> 0, out |-> 0]

\* randFloat(): randInt(), that is cycleRandomSeed() and the masked
\* remainder; gen.out is the int that randFloat() divides by maxSignedShort
randFloat ==
  /\ gen.steps < MaxDraws
  /\ \E next \in {cycleRandomSeed(gen.state)} :
       gen' = [state |-> next, prev |-> gen.state,
               steps |-> gen.steps + 1, out |-> randIntOf(next)]

GenStep ==
  /\ randFloat
  /\ UNCHANGED <<renderVars, samplerVars, geo, path, extraVars>>

InitGenerator ==
  /\ RenderInit /\ SamplerIdle /\ GenInit /\ geo = NoQuery /\ path = NoPath
  /\ ExtraIdle

SpecGenerator == InitGenerator /\ [][GenStep]_vars

\* ------------------------------------------------------------ queries
\* Rays put to the intersection routines: origins at the camera, on the
\* axes through the centres of the spheres (in front, on the surface,
\* just outside it, inside, at the far side), in the corner of two walls and
\* 10^-6 above the floor point of the mirror sphere; directions along the
\* axes, into the corner, and nearly parallel to a wall.
RayOrigins ==
  {VecOf(0, 0, 0, 1), VecOf(0, 2, 0, 1), VecOf(0, 1, 2, 1),
   VecOf(0, 1, 0, 1), VecOf(0, 0, -4, 1), VecOf(0, 0, -9, 2),
   VecOf(0, 0, -11, 2), VecOf(0, 0, -8, 1),
   <<Rat(0, 1), Rat(0, 1), NumAdd(Rat(-4, 1), Micro(2))>>,
   VecOf(3, 0, 0, 2), VecOf(-5, -1, 0, 2), VecOf(4, 4, 0, 2),
   <<Rat(3, 2), NumAdd(Rat(-1, 1), Micro(1)), Rat(-5, 1)>>}

RayDirections ==
  {VecOf(0, 0, -1, 1), VecOf(0, 0, 1, 1), VecOf(0, -1, 0, 1),
   VecOf(0, 1, 0, 1), VecOf(1, 0, 0, 1), VecOf(0, 0, -2, 1),
   VecOf(-6, -1, 0, 1),
   <<Rat(1, 1), <<0, 0, -1, 0, 2>>, Rat(0, 1)>>}

Rays == {NewRay(o, d) : o \in RayOrigins, d \in RayDirections}

\* the sphere and the plane of the worked examples, and those of the scene
SphereInputs ==
  {[position |-> VecOf(0, 0, -5, 1), radius |-> Rat(1, 1),
    material |-> NewMirror]}
    \cup {spheres[i] : i \in 1 .. sphereCount}

PlaneInputs ==
  {[normal |-> VecOf(0, 1, 0, 1), d |-> Rat(-1, 1),
    material |-> NewPaper(vec3(Rat(1, 1)))]}
    \cup {planes[i] : i \in 1 .. planeCount}

\* <<tMin, tMax>>
BoundPairs ==
  {<<TMIN, TMAX>>, <<Rat(1, 1), Rat(9, 2)>>, <<Rat(1, 2), Rat(3, 1)>>}

\* intersectSphere(ray, sphere, tMin, tMax) has a representation: the
\* direction is rational and the discriminant is not positive, or it is a
\* square, the direction has rational length, and the normal is that of a
\* vector along an axis or of rational length.
SphereExact(ray, sphere, tMin, tMax) ==
  /\ \A i \in 1 .. 3 : Rational(ray.direction[i])
  /\ \/ NumLe(Discriminant(ray, sphere), Rat(0, 1))
     \/ /\ IsSquare(Discriminant(ray, sphere))
        /\ IsSquare(dot(ray.direction, ray.direction))
        /\ With(SphereRoots(ray, sphere), LAMBDA q :
             \/ NumLt(tMax, q.t0)
             \/ NumLt(q.t1, tMin)
             \/ With(minus(plus(ray.origin,
                                times(SphereT(q, tMin, tMax),
                                      ray.direction)),
                           sphere.position), LAMBDA v :
                  \/ Cardinality({i \in 1 .. 3 : NumSign(v[i]) # 0}) = 1
                  \/ /\ LengthPositive(v)
                     /\ IsSquare(dot(v, v))))

SceneExact(ray) ==
  \A i \in 1 .. sphereCount : SphereExact(ray, spheres[i], TMIN, TMAX)

QueryInit ==
  \E r \in Rays : \E b \in BoundPairs :
    geo = [NoQuery EXCEPT !.ray = r, !.tMin = b[1], !.tMax = b[2]]

SphereQuery ==
  /\ geo.op = "none"
  /\ \E s \in SphereInputs :
       /\ SphereExact(geo.ray, s, geo.tMin, geo.tMax)
       /\ geo' = [geo EXCEPT
                    !.op = "sphere", !.sphere = s,
                    !.h = intersectSphere(geo.ray, s, geo.tMin, geo.tMax)]
  /\ UNCHANGED <<renderVars, samplerVars, gen, path, extraVars>>

PlaneQuery ==
  /\ geo.op = "none"
  /\ \E p \in PlaneInputs :
       geo' = [geo EXCEPT
                 !.op = "plane", !.plane = p,
                 !.h = intersectPlane(geo.ray, p, geo.tMin, geo.tMax)]
  /\ UNCHANGED <<renderVars, samplerVars, gen, path, extraVars>>

SceneQuery ==
  /\ geo.op = "none"
  /\ SceneExact(geo.ray)
  /\ geo' = [geo EXCEPT !.op = "scene", !.tMin = TMIN, !.tMax = TMAX,
                        !.h = intersectScene(geo.ray)]
  /\ UNCHANGED <<renderVars, samplerVars, gen, path, extraVars>>

QueryNext ==
  \/ SphereQuery
  \/ PlaneQuery
  \/ SceneQuery

InitIntersect ==
  /\ RenderInit /\ SamplerIdle /\ gen = NoGen /\ QueryInit /\ path = NoPath
  /\ ExtraIdle

SpecIntersect == InitIntersect /\ [][QueryNext]_vars

\* ------------------------------------------------------------ path tracing
\* tracePath() and rayCast() on one camera ray. The two randFloat() results
\* of a bounce are inputs, as randInt() values k for k / maxSignedShort.
\* Reflectance and probability are kept in units of 1 / M_PI, which cancels
\* in throughput * reflectance * geometricTerm / probability.

iMaxPathLength == 5

\* the randInt() values whose square root and cosine are rational:
\* randFloat() = 0.0 and randFloat() = 1.0
XiValues == {0, maxSignedShort}

\* sqrt(k / maxSignedShort)
SqrtXi(k) ==
  IF k = 0 THEN Rat(0, 1)
  ELSE IF k = maxSignedShort THEN Rat(1, 1) ELSE Unrepresentable

\* cos(2.0 * M_PI * k / maxSignedShort), sin(2.0 * M_PI * k / maxSignedShort)
CosTurn(k) == IF k \in {0, maxSignedShort} THEN Rat(1, 1) ELSE Unrepresentable

SinTurn(k) == IF k \in {0, maxSignedShort} THEN Rat(0, 1) ELSE Unrepresentable

cross(a, b) ==
  With(a, LAMBDA u : With(b, LAMBDA v :
    <<NumSub(NumMul(u[2], v[3]), NumMul(u[3], v[2])),
      NumSub(NumMul(u[3], v[1]), NumMul(u[1], v[3])),
      NumSub(NumMul(u[1], v[2]), NumMul(u[2], v[1]))>>))

\* reflect(I, N) = I - 2.0 * dot(N, I) * N
reflect(I, N) ==
  With(I, LAMBDA u : With(N, LAMBDA n :
    minus(u, times(NumMul(Rat(2, 1), dot(n, u)), n))))

\* pow(x, y) for the bases 0 and 1 and for the exponent 1
pow(x, y) ==
  With(x, LAMBDA b : With(y, LAMBDA e :
    IF NumSign(b) = 0
      THEN IF NumSign(e) > 0 THEN Rat(0, 1) ELSE Unrepresentable
    ELSE IF b = Rat(1, 1) \/ e = Rat(1, 1) THEN b
    ELSE Unrepresentable))

\* the columns of mat3(tangent, bitangent, normal)
getToLocalFrame(normal) ==
  With(normal, LAMBDA n :
    With(IF NumLt(Rat(9, 10), abs(n[2]))
           THEN VecOf(1, 0, 0, 1) ELSE VecOf(0, 1, 0, 1), LAMBDA nonParallel :
      With(normalize(cross(n, nonParallel)), LAMBDA tangent :
        <<tangent, cross(n, tangent), n>>)))

\* probability in units of 1 / M_PI. A column of toWorld whose coefficient
\* in localDir is zero is not computed.
sampleDirectionCosineWeighted(normal, xi_1, xi_2) ==
  With(SqrtXi(xi_1), LAMBDA cosTheta :
    With(SqrtXi(maxSignedShort - xi_1), LAMBDA sinTheta :
      IF NumSign(sinTheta) = 0
        THEN [probability |-> cosTheta, direction |-> times(cosTheta, normal)]
        ELSE
          With(getToLocalFrame(normal), LAMBDA toWorld :
            [probability |-> cosTheta,
             direction |->
               plus(plus(times(NumMul(CosTurn(xi_2), sinTheta), toWorld[1]),
                         times(NumMul(SinTurn(xi_2), sinTheta), toWorld[2])),
                    times(cosTheta, toWorld[3]))])))

\* Mutant: the cosine taken between the normal and itself.
getGeometricTermOfNormal(material, normal, outDir) ==
  max(dot(normal, normal), Rat(0, 1))

getGeometricTerm(material, normal, outDir) ==
  max(dot(normal, outDir), Rat(0, 1))

\* in units of 1 / M_PI
getReflectance(material, normal, inDir, outDir) ==
  With(reflect(neg(inDir), normal), LAMBDA reflected :
    With(NumMul(NumDiv(NumAdd(material.glossiness, Rat(2, 1)), Rat(2, 1)),
                pow(max(dot(outDir, reflected), Rat(0, 1)),
                    material.glossiness)), LAMBDA lobe :
      times(Rat(1, 2), plus(material.diffuse, times(lobe, material.specular)))))

\* Mutant: the loop condition i <= iMaxPathLength.
LoopContinuesOneMore(i) == i <= iMaxPathLength

\* for (int i = 0; i < iMaxPathLength; i++): the test after i++
LoopContinues(i) == i < iMaxPathLength

\* one iteration of the loop of tracePath, from the locals p
tracePathIteration(p, xi_1, xi_2) ==
  With(intersectScene(p.ray), LAMBDA h :
    With([p EXCEPT !.op = "tracePath", !.intersections = @ + 1,
                   !.divided = FALSE], LAMBDA q :
      IF ~h.hit THEN [q EXCEPT !.pc = "returned", !.exit = "miss"]
      ELSE
        With(plus(q.result, mulv(q.throughput, h.material.emissive)),
             LAMBDA result :
        With(sampleDirectionCosineWeighted(h.normal, xi_1, xi_2), LAMBDA s :
        With(NewRay(plus(h.position, times(Micro(10), h.normal)),
                    normalize(s.direction)), LAMBDA outgoingRay :
        With(getGeometricTerm(h.material, h.normal, outgoingRay.direction),
             LAMBDA geometricTerm :
        With([q EXCEPT
                !.result = result,
                !.draws = @ + 2,
                !.probability = s.probability,
                !.geometricTerm = geometricTerm,
                !.light =
                  IF ~q.light.seen /\ LengthPositive(h.material.emissive)
                    THEN [seen |-> TRUE, i |-> q.i,
                          intersections |-> q.intersections,
                          draws |-> q.draws, result |-> result]
                    ELSE @], LAMBDA lit :
          IF NumLt(geometricTerm, Micro(1))
            THEN [lit EXCEPT !.pc = "returned", !.exit = "grazing"]
          \* throughput /= 0.0 leaves the numbers of the model
          ELSE IF NumSign(s.probability) = 0
            THEN [lit EXCEPT !.divided = TRUE, !.pc = "returned",
                             !.exit = "division by zero"]
            ELSE
              With(getReflectance(h.material, h.normal, q.ray.direction,
                                  outgoingRay.direction), LAMBDA reflectance :
                [lit EXCEPT
                   !.throughput =
                     times(NumDiv(geometricTerm, s.probability),
                           mulv(@, reflectance)),
                   !.ray = outgoingRay,
                   !.i = @ + 1,
                   !.divided = TRUE,
                   !.pc = IF LoopContinues(q.i + 1) THEN "loop" ELSE "returned",
                   !.exit = IF LoopContinues(q.i + 1)
                              THEN "none" ELSE "length"]))))))))

rayCastAmbient(ray) ==
  With(intersectScene(ray), LAMBDA h :
    IF ~h.hit THEN vec3(Rat(1, 1))
    ELSE IF LengthPositive(h.material.emissive) THEN h.material.emissive
    ELSE h.material.diffuse)

rayCast(ray) ==
  With(intersectScene(ray), LAMBDA h :
    IF ~h.hit THEN vec3(Rat(0, 1))
    ELSE IF LengthPositive(h.material.emissive) THEN h.material.emissive
    ELSE h.material.diffuse)

\* iCamPosition: the initial camera position and positions the user walks to
CameraOrigins ==
  {VecOf(0, 1, 2, 1), VecOf(-5, -1, 0, 2), VecOf(-8, -1, -6, 2),
   VecOf(3, 0, 0, 2), VecOf(-3, 1, 0, 2), VecOf(0, 1, -3, 1),
   VecOf(4, 4, -5, 1), VecOf(-4, 3, 1, 1)}

\* directions of camera rays: unit vectors along the axes and two of
\* rational length 1
CameraDirections ==
  {VecOf(0, 0, -1, 1), VecOf(0, 0, 1, 1), VecOf(0, 1, 0, 1),
   VecOf(0, -1, 0, 1), VecOf(1, 0, 0, 1), VecOf(-1, 0, 0, 1),
   VecOf(0, 4, -3, 5), VecOf(0, -3, -4, 5)}

PathInit ==
  \E o \in CameraOrigins : \E d \in CameraDirections :
    /\ SceneExact(NewRay(o, d))
    /\ path = [NoPath EXCEPT !.pc = "ready", !.ray = NewRay(o, d),
                             !.cam = NewRay(o, d)]

TracePathRun ==
  /\ path.pc \in {"ready", "loop"}
  /\ path.op \in {"none", "tracePath"}
  /\ SceneExact(path.ray)
  /\ \E xi_1 \in XiValues : \E xi_2 \in XiValues :
       path' = tracePathIteration(path, xi_1, xi_2)
  /\ UNCHANGED <<renderVars, samplerVars, gen, geo, extraVars>>

RayCastRun ==
  /\ path.pc = "ready"
  /\ SceneExact(path.ray)
  /\ path' = [path EXCEPT !.op = "rayCast", !.pc = "returned",
                          !.intersections = 1,
                          !.result = rayCast(path.ray)]
  /\ UNCHANGED <<renderVars, samplerVars, gen, geo, extraVars>>

PathNext ==
  \/ TracePathRun
  \/ RayCastRun

InitPath ==
  /\ RenderInit /\ SamplerIdle /\ gen = NoGen /\ geo = NoQuery /\ PathInit
  /\ ExtraIdle

SpecPath == InitPath /\ [][PathNext]_vars

\* ------------------------------------------------------------ camera
\* main() with iPathTrace = false, run twice on one pixel with the same
\* iResolution, iCamPosition and iCamRotation. The two randFloat() results
\* that generateCameraRay draws under FEATURE_TAA are inputs of each run, as
\* randInt() values (they follow from iTime through initRandomSeed).

\* getUv() for gl_FragCoord.xy = fragCoord
getUv(fragCoord, iResolution) ==
  With(<<NumDiv(fragCoord[1], Rat(iResolution[1], 1)),
         NumDiv(fragCoord[2], Rat(iResolution[2], 1))>>, LAMBDA uv :
    With(Rat(iResolution[1], iResolution[2]), LAMBDA aspect :
      IF NumLt(Rat(1, 1), aspect)
        THEN <<NumAdd(NumMul(NumSub(uv[1], Rat(1, 2)), aspect), Rat(1, 2)),
               uv[2]>>
        ELSE <<uv[1],
               NumAdd(NumDiv(NumSub(uv[2], Rat(1, 2)), aspect), Rat(1, 2))>>))

\* rotateByQuaternion(v, q), q = (x, y, z, w)
rotateByQuaternion(v, q) ==
  With(<<q[1], q[2], q[3]>>, LAMBDA qv :
    With(times(Rat(2, 1), cross(qv, v)), LAMBDA t :
      plus(plus(v, times(q[4], t)), cross(qv, t))))

\* variant: the local origin is (0, 0, 1)
generateCameraRayOffset(uv, cameraPos, cameraRot, iResolution, xi) ==
  With(<<NumAdd(uv[1], NumDiv(NumSub(Rat(xi[1], maxSignedShort), Rat(1, 2)),
                              Rat(iResolution[1], 1))),
         NumAdd(uv[2], NumDiv(NumSub(Rat(xi[2], maxSignedShort), Rat(1, 2)),
                              Rat(iResolution[2], 1)))>>, LAMBDA jittered :
    With(normalize(<<NumSub(NumMul(jittered[1], Rat(2, 1)), Rat(1, 1)),
                     NumSub(NumMul(jittered[2], Rat(2, 1)), Rat(1, 1)),
                     Rat(-3, 2)>>), LAMBDA localDir :
      NewRay(plus(cameraPos, rotateByQuaternion(VecOf(0, 0, 1, 1), cameraRot)),
             normalize(rotateByQuaternion(localDir, cameraRot)))))

\* generateCameraRay with FEATURE_TAA defined; xi: the two randInt() results
generateCameraRay(uv, cameraPos, cameraRot, iResolution, xi) ==
  With(<<NumAdd(uv[1], NumDiv(NumSub(Rat(xi[1], maxSignedShort), Rat(1, 2)),
                              Rat(iResolution[1], 1))),
         NumAdd(uv[2], NumDiv(NumSub(Rat(xi[2], maxSignedShort), Rat(1, 2)),
                              Rat(iResolution[2], 1)))>>, LAMBDA jittered :
    With(normalize(<<NumSub(NumMul(jittered[1], Rat(2, 1)), Rat(1, 1)),
                     NumSub(NumMul(jittered[2], Rat(2, 1)), Rat(1, 1)),
                     Rat(-3, 2)>>), LAMBDA localDir :
      NewRay(plus(cameraPos, rotateByQuaternion(vec3(Rat(0, 1)), cameraRot)),
             normalize(rotateByQuaternion(localDir, cameraRot)))))

\* iResolution and the pixel: render targets of 3 x 1 and 1 x 3 pixels,
\* whose centre pixel has jittered directions of rational length
PixelConfigs == {<<<<3, 1>>, <<1, 0>>>>, <<<<1, 3>>, <<0, 1>>>>}

\* iCamRotation: the identity, half a turn about y, a turn of 2 atan(3/4)
\* about y, and a quaternion of length 2
CameraRotations ==
  {<<Rat(0, 1), Rat(0, 1), Rat(0, 1), Rat(1, 1)>>,
   <<Rat(0, 1), Rat(1, 1), Rat(0, 1), Rat(0, 1)>>,
   <<Rat(0, 1), Rat(3, 5), Rat(0, 1), Rat(4, 5)>>,
   <<Rat(0, 1), Rat(0, 1), Rat(0, 1), Rat(2, 1)>>}

\* iCamPosition: the initial position and two the user can walk to
CamPositions == {VecOf(0, 1, 2, 1), VecOf(3, 0, 0, 2), VecOf(-4, 3, 1, 1)}

CamRay(c, r) ==
  generateCameraRay(
    getUv(<<Rat(2 * c.pixel[1] + 1, 2), Rat(2 * c.pixel[2] + 1, 2)>>, c.res),
    c.pos, c.rot, c.res, c.run[r].xi)

CamInit ==
  \E pc \in PixelConfigs : \E o \in CamPositions : \E q \in CameraRotations :
    \E xa \in XiValues \X XiValues : \E xb \in XiValues \X XiValues :
      cam = [res |-> pc[1], pixel |-> pc[2], pos |-> o, rot |-> q,
             run |-> [r \in Runs |->
                        [NoShade EXCEPT !.xi = IF r = "A" THEN xa ELSE xb]]]

\* main() with iPathTrace = false
main(r) ==
  /\ ~cam.run[r].done
  /\ \E camRay \in {CamRay(cam, r)} :
       /\ SceneExact(camRay)
       /\ cam' = [cam EXCEPT
                    ![ "run" ][r] =
                      [xi |-> cam.run[r].xi, done |-> TRUE, ray |-> camRay,
                       sample |-> rayCast(camRay), intersections |-> 1]]

MainRun ==
  /\ \E r \in Runs : main(r)
  /\ UNCHANGED <<renderVars, samplerVars, pureVars, orient, streams, life, prov>>

InitCamera ==
  /\ RenderInit /\ SamplerIdle /\ PureIdle /\ CamInit /\ OrientIdle
  /\ StreamsIdle /\ LifeIdle /\ ProvIdle

SpecCamera == InitCamera /\ [][MainRun]_vars

\* ------------------------------------------------------------ orientation
\* camRot.current under mouse drags, computed in finite precision: every
\* component is a whole number of ten-thousandths (QuatUnit = 1.0) and every
\* arithmetic result is rounded to the nearest one, as a Float32Array element
\* is rounded to the nearest float.
MaxUpdates == 5

\* n / d rounded to the nearest integer, halves away from zero (d > 0)
RoundDiv(n, d) ==
  IF n < 0 THEN -((2 * (-n) + d) \div (2 * d)) ELSE (2 * n + d) \div (2 * d)

\* the largest r in lo..hi with r * r <= n (lo * lo <= n)
RECURSIVE SqrtFloor(_, _, _)
SqrtFloor(n, lo, hi) ==
  IF lo >= hi THEN lo
  ELSE LET mid == (lo + hi + 1) \div 2
       IN  IF mid * mid <= n THEN SqrtFloor(n, mid, hi)
           ELSE SqrtFloor(n, lo, mid - 1)

\* Math.sqrt(n), rounded to the nearest integer
SqrtRound(n) ==
  LET r == SqrtFloor(n, 0, 4 * QuatUnit)
  IN  IF (r + 1) * (r + 1) - n < n - r * r THEN r + 1 ELSE r

\* e.movementX, e.movementY of a mousemove event, in pixels
Movements == {<<0, 0>>, <<40, 40>>, <<-17, 200>>, <<3, -40>>}

\* Math.sin and Math.cos of |movement| * mouseMoveSens / 2 = |movement| * 0.0025
\* radians, in ten-thousandths: <<sin, cos>>
SinCosHalf ==
  [d \in {0, 3, 17, 40, 200} |->
     CASE d = 0 -> <<0, 10000>>
       [] d = 3 -> <<75, 10000>>
       [] d = 17 -> <<425, 9991>>
       [] d = 40 -> <<998, 9950>>
       [] d = 200 -> <<4794, 8776>>]

\* quat.setAxisAngle(out, axis, rad) for rad = -movement * mouseMoveSens:
\* s = sin(rad / 2), out = <<s * axis, cos(rad / 2)>>
setAxisAngleFx(axis, movement) ==
  LET sc == SinCosHalf[Abs(movement)]
      s == IF movement > 0 THEN -sc[1] ELSE sc[1]
  IN  <<s * axis[1], s * axis[2], s * axis[3], sc[2]>>

\* quat.multiply(out, a, b), each component rounded
quatMultiplyFx(a, b) ==
  <<RoundDiv(a[1] * b[4] + a[4] * b[1] + a[2] * b[3] - a[3] * b[2], QuatUnit),
    RoundDiv(a[2] * b[4] + a[4] * b[2] + a[3] * b[1] - a[1] * b[3], QuatUnit),
    RoundDiv(a[3] * b[4] + a[4] * b[3] + a[1] * b[2] - a[2] * b[1], QuatUnit),
    RoundDiv(a[4] * b[4] - a[1] * b[1] - a[2] * b[2] - a[3] * b[3], QuatUnit)>>

\* the squared length x*x + y*y + z*z + w*w, in units of QuatUnit^-2
SquaredLength(q) == q[1] * q[1] + q[2] * q[2] + q[3] * q[3] + q[4] * q[4]

\* Mutant: quat.normalize left out (the product is stored as it is).
quatCopyFx(q) == q

\* quat.normalize(out, a): len = x*x + y*y + z*z + w*w; if (len > 0)
\* len = 1 / Math.sqrt(len); out = a * len
quatNormalizeFx(q) ==
  LET len == SquaredLength(q)
  IN  IF len > 0
        THEN LET r == SqrtRound(len)
             IN  <<RoundDiv(q[1] * QuatUnit, r), RoundDiv(q[2] * QuatUnit, r),
                   RoundDiv(q[3] * QuatUnit, r), RoundDiv(q[4] * QuatUnit, r)>>
        ELSE q

\* handleMouseMove(e) on camRot.current = q: the orientation it leaves
handleMouseMoveFx(q, buttons, mv) ==
  IF buttons # 1 THEN q
  ELSE LET qYaw == setAxisAngleFx(<<0, 1, 0>>, mv[1])
           qPitch == setAxisAngleFx(<<1, 0, 0>>, mv[2])
           r1 == quatMultiplyFx(qYaw, q)
           r2 == quatMultiplyFx(r1, qPitch)
       IN  quatNormalizeFx(r2)

OrientInit == orient = NoOrient

\* a mousemove event reaches handleMouseMove
Drag ==
  /\ orient.n < MaxUpdates
  /\ \E b \in {0, 1} : \E mv \in Movements :
       orient' = [q |-> handleMouseMoveFx(orient.q, b, mv),
                  n |-> orient.n + 1,
                  updates |-> orient.updates + (IF b = 1 THEN 1 ELSE 0)]
  /\ UNCHANGED <<renderVars, samplerVars, pureVars, cam, streams, life, prov>>

InitOrient ==
  /\ RenderInit /\ SamplerIdle /\ PureIdle /\ CamIdle /\ OrientInit
  /\ StreamsIdle /\ LifeIdle /\ ProvIdle

SpecOrient == InitOrient /\ [][Drag]_vars

\* ------------------------------------------------------------ streams
\* Two generators started from seeds that agree in their low 15 bits and
\* differ above them. Pairs marked long run for one output more than
\* maxSignedShort + 1 = 2^15 outputs, the others for MaxDraws outputs.

\* randomSeed modulo 2^15
LowSeeds == {0, 1, 14112, 21555, 32767}

\* bits 15 .. 31 of randomSeed (65536 and above: a negative int)
UpperBits == {0, 1, 65536, 131071}

LongSeeds == {0, 21555}

\* the int with the given bits 15 .. 31 and bits 0 .. 14
SeedOf(upper, low) == <<upper \div 2, (upper % 2) * (maxSignedShort + 1) + low>>

StreamsInit ==
  \E low \in LowSeeds : \E ua \in UpperBits : \E ub \in UpperBits :
    streams = [NoStreams EXCEPT
                 !.a = SeedOf(ua, low), !.b = SeedOf(ub, low),
                 !.limit = IF low \in LongSeeds /\ ua = 0 /\ ub = 131071
                             THEN maxSignedShort + 2 ELSE MaxDraws]

\* randInt() on both generators
randIntBoth ==
  /\ streams.steps < streams.limit
  /\ \E na \in {cycleRandomSeed(streams.a)} :
     \E nb \in {cycleRandomSeed(streams.b)} :
       streams' = [streams EXCEPT
                     !.a = na, !.b = nb, !.steps = @ + 1,
                     !.outA = randIntOf(na), !.outB = randIntOf(nb),
                     !.first = IF streams.steps = 0 THEN randIntOf(na) ELSE @]
  /\ UNCHANGED <<renderVars, samplerVars, pureVars, cam, orient, life, prov>>

InitStreams ==
  /\ RenderInit /\ SamplerIdle /\ PureIdle /\ CamIdle /\ OrientIdle
  /\ StreamsInit /\ LifeIdle /\ ProvIdle

SpecStreams == InitStreams /\ [][randIntBoth]_vars

\* ------------------------------------------------------------ failed resizes
\* The frame loop when createFbo can return null inside resize(): the
\* driver's verdict on each new framebuffer is free, and the window can
\* shrink until the render target has no pixels (floor(4 * 0.2) = 0).
TinyConfigs == {<<<<4, 150>>, 2>>}

TickAnyDriver ==
  /\ \E gl1 \in BOOLEAN : \E gl2 \in BOOLEAN : \E s \in SampleVals :
       frame(gl1, gl2, s)
  /\ UNCHANGED <<samplerVars, pureVars, extraVars>>

ResizedTiny ==
  /\ \E c \in TinyConfigs : WindowResize(c[1], c[2])
  /\ UNCHANGED <<samplerVars, pureVars, extraVars>>

NextFaulty ==
  \/ TickAnyDriver
  \/ Resized
  \/ ResizedTiny
  \/ Click

SpecFaulty == Init /\ [][NextFaulty]_vars

\* ------------------------------------------------------------ life cycle
\* The effect of lines 210-413 from its first requestAnimationFrame to its
\* cleanup. The browser runs a requested callback once and forgets its id;
\* callbacks and the cleanup run one at a time, each to its end.
MaxRuns == 4

\* Mutant: requestAnimationFrame(frame) without the assignment to currFrame.
frameRequestUntracked(l) ==
  [l EXCEPT !.requests = @ \cup {l.nextId}, !.nextId = @ + 1]

\* frame, line 396: currFrame = requestAnimationFrame(frame)
frameRequest(l) ==
  [l EXCEPT !.requests = @ \cup {l.nextId}, !.currFrame = l.nextId,
            !.nextId = @ + 1]

\* The browser runs the requested callback id: frame(), whole.
FrameCallback ==
  /\ life.runs < MaxRuns
  /\ \E id \in life.requests :
       life' = frameRequest([life EXCEPT
                               !.requests = @ \ {id},
                               !.runs = @ + 1,
                               !.ranAfterCleanup = @ \/ life.cleaned,
                               !.usedDeleted = @ \/ life.cleaned])
  /\ \E s \in SampleVals : frame(TRUE, TRUE, s)
  /\ UNCHANGED <<samplerVars, pureVars, cam, orient, streams, prov>>

\* The effect's cleanup, lines 403-412: cancelAnimationFrame(currFrame), then
\* the buffer, the programs, the framebuffers and the textures are deleted.
Cleanup ==
  /\ ~life.cleaned
  /\ life' = [life EXCEPT !.requests = @ \ {life.currFrame}, !.cleaned = TRUE]
  /\ fbo' = <<DeletedFbo, DeletedFbo>>
  /\ UNCHANGED <<camPos, camRot, frameIdx, keysPressed, togglePathTrace,
                 canvasSize, clientSize, dprHalves, accTex, prevCamPos,
                 prevCamRot, accDraw, tmDraw, hist, dirty>>
  /\ UNCHANGED <<samplerVars, pureVars, cam, orient, streams, prov>>

\* The button exists as long as the component is mounted, and so do the
\* window's key listeners (removed by the cleanup of lines 203-207).
ClickMounted == ~life.cleaned /\ Click

KeyDownMounted == ~life.cleaned /\ KeyDown

LifeNext ==
  \/ FrameCallback
  \/ Cleanup
  \/ ClickMounted
  \/ KeyDownMounted
  \/ Resized

SpecLife == Init /\ [][LifeNext]_vars

\* ------------------------------------------------------------ history
\* The frame loop with, for each accumulation texture, the set of settings
\* <<camera position, orientation, render size, path-trace flag>> under which
\* the samples were rendered that have a positive weight in its mean.

\* the settings of the sample an accumulation pass rendered
SettingsOf(d) == <<d.camPos, d.camRot, d.res, d.pathTrace>>

\* the sets after the accumulation pass d: resize() replaces both textures by
\* empty ones; the pass writes prev * iFrameIndex + currSample over
\* iFrameIndex + 1 into its target, so what the texture it read holds counts
\* exactly when iFrameIndex > 0
ProvAfter(p, d) ==
  LET p0 == IF d.resized THEN NoProv ELSE p
      kept == IF d.frameIndex > 0 THEN p0[d.readTex] ELSE {}
  IN  IF d.target = 0 THEN p0
      ELSE [p0 EXCEPT ![d.target] = kept \cup {SettingsOf(d)}]

\* frame(); the radiance of the sample plays no part in whose samples a mean
\* weighs, so one value stands for all
TickTracked ==
  /\ frame(TRUE, TRUE, 1)
  /\ prov' = ProvAfter(prov, accDraw')
  /\ UNCHANGED <<samplerVars, pureVars, cam, orient, streams, life>>

HistoryNext ==
  \/ TickTracked
  \/ MouseMove
  \/ KeyDown
  \/ KeyUp
  \/ Click
  \/ Resized

SpecHistory == Init /\ [][HistoryNext]_vars

C2_PoseChangeResets == accDraw.changed => accDraw.frameIndex = 0

\* A changed pose after a pass that ran with frameIndex 1 (frameIdx was 2).
C2_Witness ==
  /\ accDraw.changed
  /\ accDraw.lastRead = 2
  /\ accDraw.frameIndex = 0

\* C3: the mean written by the first pass after a reset equals that pass'
\* sample, whatever the two buffers held.
C3_FirstMeanIsSample == accDraw.reset => accDraw.out = FromInt(accDraw.sample)

\* A reset pass that read a buffer holding a stale mean other than 0 and other
\* than the new sample.
C3_Witness ==
  /\ accDraw.reset
  /\ ~accDraw.first
  /\ accDraw.prev # Zero
  /\ accDraw.prev # FromInt(accDraw.sample)
  /\ accDraw.out = FromInt(accDraw.sample)

\* C4: newMean * (n + 1) = prevMean * n + currentSample at every pass with
\* frameIndex n, and the tick leaves frameIdx = n + 1 (until a handler resets
\* it).
C4_RunningMean ==
  accDraw.valid =>
    /\ accDraw.out[1] * (accDraw.frameIndex + 1) * accDraw.prev[2]
         = (accDraw.prev[1] * accDraw.frameIndex
              + accDraw.sample * accDraw.prev[2]) * accDraw.out[2]
    /\ ~dirty => frameIdx = accDraw.frameIndex + 1

\* A pass with n = 2 folding a sample that differs from the previous mean.
C4_Witness ==
  /\ accDraw.valid
  /\ accDraw.frameIndex = 2
  /\ accDraw.prev # FromInt(accDraw.sample)
  /\ ~dirty
  /\ frameIdx = 3

C8_NoAliasing ==
  accDraw.valid =>
    /\ accDraw.target \in {1, 2}
    /\ accDraw.readTex \in {1, 2}
    /\ accDraw.target # accDraw.readTex

\* Passes at odd and at even parity.
C8_Witness ==
  /\ accDraw.valid
  /\ accDraw.frameIndex = 1
  /\ accDraw.readTex = 2
  /\ accDraw.target = 1

\* C9: the tonemap pass of a tick samples the texture the accumulation pass of
\* that tick wrote, and shows the mean just written.
C9_TonemapReadsWritten ==
  accDraw.valid =>
    /\ tmDraw.valid
    /\ tmDraw.src = accDraw.target
    /\ tmDraw.src # accDraw.readTex
    /\ tmDraw.val = accDraw.out
    /\ tmDraw.val = accTex[tmDraw.src].val

\* The tonemap pass shows accTex1 holding the mean 3/2 of two samples.
C9_Witness ==
  /\ tmDraw.valid
  /\ tmDraw.src = 1
  /\ tmDraw.val = <<3, 2>>
  /\ accDraw.frameIndex = 1

\* the value of an int that is not negative
IntValue(x) == x[1] * Half + x[2]

\* C10: two sampler runs with the same pixel and frame time produce the same
\* randInt / randFloat results at every position, whatever else differs
\* between the invocations; the seed is floor(pixel.x) * 1973
\* + floor(pixel.y) * 9277 + floor(frameTime * 26699).
C10_SamplerDeterminism ==
  /\ \A i \in 1..MaxDraws :
       (i <= Len(drawn["A"]) /\ i <= Len(drawn["B"])) =>
          /\ drawn["A"][i] = drawn["B"][i]
          /\ randFloatOf(drawn["A"][i]) = randFloatOf(drawn["B"][i])
  /\ \A r \in Runs :
       seeded[r] =>
          /\ seed0[r][1] < 32768
          /\ IntValue(seed0[r]) =
               (inv[r].x2 \div 2) * 1973 + (inv[r].y2 \div 2) * 9277
                 + (inv[r].tMs * 26699) \div 1000

\* Both runs drew MaxDraws numbers, at pixel (1, 1) and time 1 s, from
\* different iFrameIndex and different garbage in randomSeed before seeding.
C10_Witness ==
  /\ Len(drawn["A"]) = MaxDraws
  /\ Len(drawn["B"]) = MaxDraws
  /\ inv["A"].frameIndex # inv["B"].frameIndex
  /\ inv["A"].x2 = 3 /\ inv["A"].y2 = 3 /\ inv["A"].tMs = 1000
  /\ drawn["A"][1] # drawn["A"][2]
  /\ seed0["A"] = ToInt32(1973 + 9277 + 26699)

\* C11: for every 32-bit generator state, randFloat() returns a value in
\* [0, 1): never negative and never equal to 1.
C11_Original ==
  gen.steps > 0 =>
    LET f == randFloatOf(gen.out)
    IN  /\ 0 <= f[1]
        /\ f[1] < f[2]

\* C12: each step takes the state to (state * 1664525 + 1013904223) mod 2^32,
\* here by long multiplication on the 16-bit halves (1664525 = 25 * 2^16
\* + 26125, 1013904223 = 15470 * 2^16 + 62303), and randInt(), the new state
\* masked to 31 bits modulo 32768, lies in 0..32767 for states of either
\* sign.
C12_LcgStep ==
  gen.steps > 0 =>
    LET low == gen.prev[2] * 26125 + 62303
        high == gen.prev[1] * 26125 + gen.prev[2] * 25 + 15470
                  + low \div Half
    IN  /\ gen.state = <<high % Half, low % Half>>
        /\ gen.out \in 0 .. 32767
        /\ gen.out = gen.state[2] % 32768

\* A step from a state that is negative as a signed int to another negative
\* state, with a randInt() result above 2^14.
C12_Witness ==
  /\ gen.steps > 0
  /\ gen.prev[1] >= 32768
  /\ gen.state[1] >= 32768
  /\ gen.out > 16384

\* The ray, sphere and plane of the worked examples.
ExampleSphereRay == NewRay(VecOf(0, 0, 0, 1), VecOf(0, 0, -1, 1))

ExampleSphere ==
  [position |-> VecOf(0, 0, -5, 1), radius |-> Rat(1, 1),
   material |-> NewMirror]

ExamplePlaneRay == NewRay(VecOf(0, 2, 0, 1), VecOf(0, -1, 0, 1))

ExamplePlane ==
  [normal |-> VecOf(0, 1, 0, 1), d |-> Rat(-1, 1),
   material |-> NewPaper(vec3(Rat(1, 1)))]

\* C13: intersectSphere for the ray from (0,0,0) along (0,0,-1) and the
\* sphere of centre (0,0,-5) and radius 1, with the bounds of the scene
\* query, reports a hit with t = 4, position (0,0,-4) and normal (0,0,1).
C13_SphereExample ==
  (/\ geo.op = "sphere"
   /\ geo.ray = ExampleSphereRay
   /\ geo.sphere = ExampleSphere
   /\ geo.tMin = TMIN /\ geo.tMax = TMAX)
    => /\ geo.h.hit
       /\ geo.h.t = Rat(4, 1)
       /\ geo.h.position = VecOf(0, 0, -4, 1)
       /\ geo.h.normal = VecOf(0, 0, 1, 1)

C13_Witness ==
  /\ geo.op = "sphere"
  /\ geo.ray = ExampleSphereRay
  /\ geo.sphere = ExampleSphere
  /\ geo.tMin = TMIN /\ geo.tMax = TMAX
  /\ geo.h.hit

\* C14: intersectPlane for the ray from (0,2,0) along (0,-1,0) and the plane
\* of normal (0,1,0) and offset -1 reports a hit with t = 1 at (0,1,0); every
\* plane hit lies on the plane, dot(n, position) + d = 0, with
\* tMin <= t <= tMax; a ray with |dot(n, dir)| < 1e-6 reports no hit.
C14_PlaneHit ==
  geo.op = "plane" =>
    /\ (/\ geo.ray = ExamplePlaneRay
        /\ geo.plane = ExamplePlane
        /\ geo.tMin = TMIN /\ geo.tMax = TMAX)
         => /\ geo.h.hit
            /\ geo.h.t = Rat(1, 1)
            /\ geo.h.position = VecOf(0, 1, 0, 1)
    /\ geo.h.hit =>
         /\ NumAdd(dot(geo.plane.normal, geo.h.position), geo.plane.d)
              = Rat(0, 1)
         /\ NumLe(geo.tMin, geo.h.t)
         /\ NumLe(geo.h.t, geo.tMax)
    /\ NumLt(abs(dot(geo.plane.normal, geo.ray.direction)), Micro(1))
         => ~geo.h.hit

C14_Witness ==
  /\ geo.op = "plane"
  /\ geo.ray = ExamplePlaneRay
  /\ geo.plane = ExamplePlane
  /\ geo.tMin = TMIN /\ geo.tMax = TMAX
  /\ geo.h.hit
  /\ geo.h.position = VecOf(0, 1, 0, 1)

\* A ray that is not parallel to the plane, yet below the 1e-6 threshold.
C14_WitnessNearlyParallel ==
  /\ geo.op = "plane"
  /\ dot(geo.plane.normal, geo.ray.direction) # Rat(0, 1)
  /\ NumLt(abs(dot(geo.plane.normal, geo.ray.direction)), Micro(1))
  /\ ~geo.h.hit

\* what each primitive reports for the ray on its own, in iteration order
SceneHits(ray) ==
  [i \in 1 .. sphereCount + planeCount |->
     IF i <= sphereCount
       THEN intersectSphere(ray, spheres[i], TMIN, TMAX)
       ELSE intersectPlane(ray, planes[i - sphereCount], TMIN, TMAX)]

\* C15: intersectScene returns no-hit exactly when no primitive reports a
\* hit; otherwise it returns the hit of a primitive with the smallest t, and
\* among primitives of equal smallest t the first in iteration order
\* (spheres, then planes, each in declaration order).
C15_NearestHit ==
  geo.op = "scene" =>
    With(SceneHits(geo.ray), LAMBDA hs :
      With({i \in 1 .. sphereCount + planeCount : hs[i].hit}, LAMBDA hitIdx :
        IF hitIdx = {}
          THEN ~geo.h.hit
          ELSE /\ geo.h.hit
               /\ \E k \in hitIdx :
                    /\ geo.h = hs[k]
                    /\ \A j \in hitIdx :
                         \/ NumLt(hs[k].t, hs[j].t)
                         \/ hs[k].t = hs[j].t /\ k <= j))

\* Two primitives report the same smallest t and the earlier one is returned.
C15_Witness ==
  /\ geo.op = "scene"
  /\ geo.h.hit
  /\ With(SceneHits(geo.ray), LAMBDA hs :
       \E i \in 1 .. sphereCount + planeCount :
         \E j \in 1 .. sphereCount + planeCount :
           /\ i < j
           /\ hs[i].hit /\ hs[j].hit
           /\ hs[i].t = hs[j].t
           /\ hs[i] # hs[j]
           /\ geo.h = hs[i])

\* A sphere is returned in front of a plane that is also hit.
C15_WitnessNearer ==
  /\ geo.op = "scene"
  /\ geo.h.hit
  /\ With(SceneHits(geo.ray), LAMBDA hs :
       \E i \in 1 .. sphereCount :
         \E j \in sphereCount + 1 .. sphereCount + planeCount :
           /\ hs[i].hit /\ hs[j].hit
           /\ NumLt(hs[i].t, hs[j].t)
           /\ geo.h = hs[i])

\* A ray that no primitive reports a hit for.
C15_WitnessMiss ==
  /\ geo.op = "scene"
  /\ ~geo.h.hit

C18_Original ==
  (geo.op = "sphere" /\ geo.h.hit) =>
    NumLe(dot(geo.h.normal, geo.ray.direction), Rat(0, 1))


\* C19: for a camera ray that intersects no primitive of the scene, tracePath
\* and rayCast both return vec3(0.0); no randFloat() is drawn on the way, so
\* the result is the same for every RNG stream.
C19_MissIsBlack ==
  (path.pc = "returned" /\ ~intersectScene(path.cam).hit) =>
    /\ path.result = vec3(Rat(0, 1))
    /\ path.draws = 0
    /\ path.intersections = 1

C19_Witness ==
  /\ path.pc = "returned"
  /\ path.op = "tracePath"
  /\ ~intersectScene(path.cam).hit
  /\ path.exit = "miss"

C19_WitnessRayCast ==
  /\ path.pc = "returned"
  /\ path.op = "rayCast"
  /\ ~intersectScene(path.cam).hit

\* C20: once tracePath has hit a light, throughput * emissive has been added
\* and the loop has terminated at that hit: no randFloat() is drawn for an
\* outgoing direction, no further intersectScene() is made, and the result
\* is the one left at the light.
C20_Original ==
  (path.op = "tracePath" /\ path.light.seen) =>
    /\ path.pc = "returned"
    /\ path.draws = path.light.draws
    /\ path.intersections = path.light.intersections
    /\ path.result = path.light.result


\* C21: with the path-trace flag off, two runs of main() on the same pixel
\* with the same iResolution, camera position and rotation produce the same
\* sample whatever their RNG streams are, and each makes exactly one scene
\* intersection.
C21_Original ==
  (cam.run["A"].done /\ cam.run["B"].done) =>
    /\ cam.run["A"].sample = cam.run["B"].sample
    /\ cam.run["A"].intersections = 1
    /\ cam.run["B"].intersections = 1

\* C25: the origin of the generated camera ray is the camera position, for
\* every position, rotation, pixel and jitter.
C25_RayOriginIsCameraPosition ==
  \A r \in Runs : cam.run[r].done => cam.run[r].ray.origin = cam.pos

\* A camera ray generated under a rotation that is not the identity.
C25_Witness ==
  /\ cam.run["A"].done
  /\ cam.rot = <<Rat(0, 1), Rat(3, 5), Rat(0, 1), Rat(4, 5)>>
  /\ cam.run["A"].ray.direction # VecOf(0, 0, -1, 1)
  /\ cam.run["A"].ray.origin = cam.pos

\* C22: after any sequence of mouse-drag updates the camera orientation has
\* unit length within tolerance: its squared length differs from 1 by at most
\* three units of the arithmetic's resolution (3 * 10^-4 here).
C22_UnitLength ==
  Abs(SquaredLength(orient.q) - QuatUnit * QuatUnit) <= 3 * QuatUnit

\* Several drags that turned the camera have been applied.
C22_Witness ==
  /\ orient.updates >= 3
  /\ orient.q # NoOrient.q
  /\ orient.q[1] # 0 /\ orient.q[2] # 0 /\ orient.q[3] # 0

\* C23: tracePath makes one scene intersection per loop iteration and at most
\* iMaxPathLength of them, and then returns; it returns after fewer only when
\* the latest intersection missed or the geometric term was below 1e-6.
C23_BoundedLoop ==
  path.op = "tracePath" =>
    /\ path.intersections <= iMaxPathLength
    /\ path.pc = "loop" => path.intersections = path.i /\ path.i < iMaxPathLength
    /\ path.pc = "returned" =>
         \/ path.exit = "miss" /\ ~intersectScene(path.ray).hit
                               /\ path.intersections = path.i + 1
         \/ path.exit = "grazing" /\ NumLt(path.geometricTerm, Micro(1))
                                  /\ path.intersections = path.i + 1
         \/ path.exit = "length" /\ path.intersections = iMaxPathLength
                                 /\ path.i = iMaxPathLength

\* The loop ran its iMaxPathLength iterations.
C23_Witness ==
  /\ path.op = "tracePath" /\ path.pc = "returned"
  /\ path.exit = "length" /\ path.intersections = iMaxPathLength

\* The loop ended on a miss after at least one bounce.
C23_WitnessMiss ==
  /\ path.op = "tracePath" /\ path.pc = "returned"
  /\ path.exit = "miss" /\ path.i >= 1

\* C24: whenever tracePath reaches throughput /= probability, the sampled
\* probability cos(theta) / pi is positive.
C24_PositivePdf ==
  /\ path.divided => NumSign(path.probability) > 0
  /\ path.exit # "division by zero"

\* randFloat() returned 0.0 for xi_1: cos(theta) = 0, and the loop ended at
\* the test of the geometric term, before the division.
C24_Witness ==
  /\ path.op = "tracePath" /\ path.exit = "grazing"
  /\ NumSign(path.probability) = 0 /\ ~path.divided

\* The division was reached, with a positive probability.
C24_WitnessDivided ==
  /\ path.op = "tracePath" /\ path.divided /\ NumSign(path.probability) > 0

\* C26: when a tick follows a tick with the same camera position and
\* orientation, render size and path-trace flag, and no handler asked for a
\* reset in between, its accumulation pass runs with frameIndex one greater
\* than the tick before, whatever keys are held.
C26_Original ==
  [][(/\ Tick
      /\ accDraw.valid /\ ~dirty /\ ~accDraw'.resized
      /\ accDraw'.camPos = accDraw.camPos /\ accDraw'.camRot = accDraw.camRot
      /\ accDraw'.res = accDraw.res /\ accDraw'.pathTrace = accDraw.pathTrace)
     => accDraw'.frameIndex = accDraw.frameIndex + 1]_vars

\* The same with no key held: the only case in which the index advances.
C26_NoKeyHeld ==
  [][(/\ Tick
      /\ keysPressed = {}
      /\ accDraw.valid /\ ~dirty /\ ~accDraw'.resized
      /\ accDraw'.camPos = accDraw.camPos /\ accDraw'.camRot = accDraw.camRot
      /\ accDraw'.res = accDraw.res /\ accDraw'.pathTrace = accDraw.pathTrace)
     => accDraw'.frameIndex = accDraw.frameIndex + 1]_vars

\* C27: two generators whose seeds agree modulo 2^15 return the same
\* randInt() at every call, and the output 2^15 calls after the first one
\* is the first one again (the period divides 2^15).
C27_StreamOfLowBits ==
  /\ streams.steps >= 1 => streams.outA = streams.outB
  /\ streams.steps = maxSignedShort + 2 => streams.outA = streams.first

\* Two generators in different states have made 2^15 + 1 calls.
C27_Witness ==
  /\ streams.steps = maxSignedShort + 2
  /\ streams.a # streams.b
  /\ streams.outA = streams.outB

\* Seeds of opposite sign that agree modulo 2^15, after one call.
C27_WitnessSign ==
  /\ streams.steps = 1
  /\ streams.a[1] < 32768 /\ streams.b[1] >= 32768
  /\ streams.outA = streams.outB

\* C28: at every draw of the frame loop fbo1 and fbo2 are live framebuffers
\* attached to the current accTex1 and accTex2, the accumulation pass draws
\* into the framebuffer it selected and the tonemap pass reads the texture
\* that pass wrote, also after a resize in which createFbo returned null.
C28_Original ==
  accDraw.valid =>
    /\ fbo[1].live /\ fbo[1].att = 1
    /\ fbo[2].live /\ fbo[2].att = 2
    /\ accDraw.target = accDraw.writeFbo
    /\ tmDraw.src = accDraw.target

\* The same under a driver that always hands out complete framebuffers and
\* a window that leaves the render target at least one pixel.
C28_FaultFree ==
  accDraw.valid =>
    /\ fbo[1].live /\ fbo[1].att = 1
    /\ fbo[2].live /\ fbo[2].att = 2
    /\ accDraw.target = accDraw.writeFbo
    /\ tmDraw.src = accDraw.target
    /\ canvasSize[1] >= 5

\* C29: at most one animation-frame callback is requested at any moment, it
\* is the one currFrame names, the cleanup cancels it, and once the cleanup
\* has run frame() never runs and nothing is drawn with a deleted object.
C29_NoFrameAfterCleanup ==
  /\ Cardinality(life.requests) <= 1
  /\ ~life.cleaned => life.requests = {life.currFrame}
  /\ life.cleaned => life.requests = {}
  /\ ~life.ranAfterCleanup
  /\ ~life.usedDeleted

\* The cleanup ran after frame() had run and requested itself again.
C29_Witness ==
  /\ life.cleaned
  /\ life.runs >= 2
  /\ life.currFrame = life.runs + 1
  /\ life.requests = {}
  /\ ~fbo[1].live /\ ~fbo[2].live

\* C30: every sample with a positive weight in the mean a tick wrote was
\* rendered with that tick's camera position and orientation, render size
\* and path-trace flag.
C30_NoStaleHistory ==
  accDraw.valid /\ accDraw.target # 0 =>
    prov[accDraw.target] = {SettingsOf(accDraw)}

\* A mean of several samples was written after the settings had changed:
\* the path-trace flag is off, the camera has turned, the window was resized.
C30_Witness ==
  /\ accDraw.valid /\ accDraw.frameIndex >= 1
  /\ ~accDraw.pathTrace
  /\ accDraw.camRot # QuatIdentity
  /\ accDraw.res # getRenderSize(DefaultCanvas)
  /\ prov[accDraw.target] = {SettingsOf(accDraw)}
  /\ prov[accDraw.readTex] = {SettingsOf(accDraw)}

====
